---------------------------- MODULE Spec2Model ----------------------------
(***************************************************************************)
(* A model of the VSS server's key-value engine: the in-memory backend     *)
(* (rust/impls/src/in_memory_store.rs) and the PostgreSQL backend          *)
(* (rust/impls/src/postgres_store.rs) behind the KvStore trait, and the    *)
(* HTTP router in front of them (rust/server/src/vss_service.rs).          *)
(*                                                                         *)
(* Strings and byte strings are sequences of character codes, so that      *)
(* concatenation, prefix tests, ordering, decimal formatting and parsing   *)
(* are computed the way the code computes them.                            *)
(***************************************************************************)
EXTENDS Integers, Sequences, FiniteSets, TLC

VARIABLES
    config,     \* VssService.config: the VssServiceConfig it was built with
    database,   \* the schema of the vss database: its tables, version and log
    backend,    \* which KvStore implementation was constructed
    store,      \* InMemoryBackendImpl.store: BTreeMap<String, VssDbRecord>
    vss_db,     \* the vss_db table: primary key (user_token, store_id, key)
    req,        \* the request handled by the last step
    resp,       \* the response returned by the last step
    prev,       \* the backend's records before the requests under way
    pager,      \* a client following next_page_token from a first-page List
    txn,        \* the Puts in flight, one per connection
    lister      \* a first-page List in flight next to the transactions

vars == <<config, database, backend, store, vss_db, req, resp, prev, pager, txn, lister>>

---------------------------------------------------------------------------
(* Bounds of the model.                                                    *)

\* i64::MAX, scaled to the width of the model's version counters.
I64_MAX == 2
\* The largest page_size a modelled ListKeyVersionsRequest asks for.
MaxPageSize == 2
\* MAX_PUT_REQUEST_ITEM_COUNT (1000 in lib.rs), scaled to the lengths of the
\* modelled requests.
MAX_PUT_REQUEST_ITEM_COUNT == 3
\* How many migrations later releases append to MIGRATIONS.
MaxNewMigrations == 2

---------------------------------------------------------------------------
(* Program constants.                                                      *)

INITIAL_RECORD_VERSION == 1
LIST_KEY_VERSIONS_MAX_PAGE_SIZE == 100
I32_MAX == 2147483647
\* 1024 * 1024 * 1024
MAXIMUM_REQUEST_BODY_SIZE == 1073741824

\* "global_version"
GLOBAL_VERSION_KEY == <<103, 108, 111, 98, 97, 108, 95, 118, 101, 114, 115, 105, 111, 110>>

---------------------------------------------------------------------------
(* Strings.                                                                *)

EmptyStr == << >>

Min(a, b) == IF a <= b THEN a ELSE b

\* str::starts_with
StartsWith(s, p) == Len(p) <= Len(s) /\ SubSeq(s, 1, Len(p)) = p

\* Byte-wise lexicographic order of strings (Ord for String; a key column
\* compared and ordered under a byte-order collation).
RECURSIVE StrLess(_, _)
StrLess(a, b) ==
    IF b = EmptyStr THEN FALSE
    ELSE IF a = EmptyStr THEN TRUE
    ELSE IF Head(a) # Head(b) THEN Head(a) < Head(b)
    ELSE StrLess(Tail(a), Tail(b))

\* The strings of a finite set in ascending order.
RECURSIVE SortedSeq(_)
SortedSeq(S) ==
    IF S = {} THEN << >>
    ELSE LET m == CHOOSE x \in S : \A y \in S \ {x} : StrLess(x, y)
         IN <<m>> \o SortedSeq(S \ {m})

\* usize::to_string: decimal digits, no leading zero.
RECURSIVE UsizeToString(_)
UsizeToString(n) ==
    IF n < 10 THEN <<48 + n>>
    ELSE UsizeToString(n \div 10) \o <<48 + (n % 10)>>

IsDigits(s) == s # EmptyStr /\ \A i \in 1..Len(s) : s[i] \in 48..57

RECURSIVE DigitsValue(_)
DigitsValue(s) ==
    IF s = EmptyStr THEN 0
    ELSE 10 * DigitsValue(SubSeq(s, 1, Len(s) - 1)) + (s[Len(s)] - 48)

\* Option<T>: None is the empty sequence, Some(x) the sequence <<x>>.
None == << >>
Some(x) == <<x>>
IsSome(o) == Len(o) = 1
Unwrap(o) == o[1]
UnwrapOr(o, d) == IF IsSome(o) THEN o[1] ELSE d

\* str::parse::<usize>().ok(): None for anything that is not a decimal
\* number (an optional leading '+' is accepted by the parser).
ParseUsize(s) ==
    LET body == IF s # EmptyStr /\ Head(s) = 43 THEN Tail(s) ELSE s
    IN IF IsDigits(body) THEN Some(DigitsValue(body)) ELSE None

---------------------------------------------------------------------------
(* Records and arithmetic.                                                 *)

\* An increment that does not saturate.
PlainInc(v) == v + 1

\* i64::saturating_add(1)
SaturatingInc(v) == IF v >= I64_MAX THEN I64_MAX ELSE v + 1

KeyValue(k, val, ver) == [key |-> k, value |-> val, version |-> ver]

---------------------------------------------------------------------------
(* Results of a handler: Result<Response, VssError>.                       *)

OkStatus == "Ok"
NoSuchKeyError == "NoSuchKeyError"
InvalidRequestError == "InvalidRequestError"
ConflictError == "ConflictError"
InternalServerError == "InternalServerError"

---------------------------------------------------------------------------
(* The in-memory backend (in_memory_store.rs).  A map is a function whose  *)
(* domain is the set of storage keys present.                              *)

build_storage_key(user_token, store_id, key) ==
    user_token \o <<35>> \o store_id \o <<35>> \o key

get_current_global_version(guard, user_token, store_id) ==
    LET global_key == build_storage_key(user_token, store_id, GLOBAL_VERSION_KEY)
    IN IF global_key \in DOMAIN guard THEN guard[global_key].version ELSE 0

\* OkStatus for Ok(()), ConflictError for Err(VssError::ConflictError(..)).
validate_put_operation(map, user_token, store_id, key_value) ==
    LET key == build_storage_key(user_token, store_id, key_value.key)
    IN IF key_value.version = -1 THEN OkStatus
       ELSE IF key_value.version = 0
            THEN (IF key \in DOMAIN map THEN ConflictError ELSE OkStatus)
       ELSE IF key \in DOMAIN map
            THEN (IF map[key].version = key_value.version THEN OkStatus ELSE ConflictError)
       ELSE ConflictError

validate_delete_operation(map, user_token, store_id, key_value) ==
    LET key == build_storage_key(user_token, store_id, key_value.key)
    IN IF key_value.version = -1 THEN OkStatus
       ELSE IF key \in DOMAIN map
            THEN (IF map[key].version = key_value.version THEN OkStatus ELSE ConflictError)
       ELSE ConflictError

\* The map after BTreeMap::entry(key) is updated (Occupied) or filled (Vacant).
execute_put_object(map, user_token, store_id, key_value) ==
    LET key == build_storage_key(user_token, store_id, key_value.key)
    IN IF key \in DOMAIN map
       THEN [map EXCEPT ![key] =
                [@ EXCEPT !.version = IF key_value.version = -1
                                      THEN INITIAL_RECORD_VERSION
                                      ELSE SaturatingInc(@),
                          !.value = key_value.value]]
       ELSE [k \in DOMAIN map \cup {key} |->
                IF k = key
                THEN [user_token |-> user_token, store_id |-> store_id,
                      key |-> key_value.key, value |-> key_value.value,
                      version |-> INITIAL_RECORD_VERSION]
                ELSE map[k]]

execute_delete_object(map, user_token, store_id, key_value) ==
    LET key == build_storage_key(user_token, store_id, key_value.key)
    IN [k \in DOMAIN map \ {key} |-> map[k]]

\* for key_value in items { validate...(..)? }: the first error, or Ok.
RECURSIVE ValidatePuts(_, _, _, _)
ValidatePuts(map, user_token, store_id, items) ==
    IF items = << >> THEN OkStatus
    ELSE IF validate_put_operation(map, user_token, store_id, Head(items)) # OkStatus
         THEN ConflictError
    ELSE ValidatePuts(map, user_token, store_id, Tail(items))

RECURSIVE ValidateDeletes(_, _, _, _)
ValidateDeletes(map, user_token, store_id, items) ==
    IF items = << >> THEN OkStatus
    ELSE IF validate_delete_operation(map, user_token, store_id, Head(items)) # OkStatus
         THEN ConflictError
    ELSE ValidateDeletes(map, user_token, store_id, Tail(items))

RECURSIVE ExecutePuts(_, _, _, _)
ExecutePuts(map, user_token, store_id, items) ==
    IF items = << >> THEN map
    ELSE ExecutePuts(execute_put_object(map, user_token, store_id, Head(items)),
                     user_token, store_id, Tail(items))

RECURSIVE ExecuteDeletes(_, _, _, _)
ExecuteDeletes(map, user_token, store_id, items) ==
    IF items = << >> THEN map
    ELSE ExecuteDeletes(execute_delete_object(map, user_token, store_id, Head(items)),
                        user_token, store_id, Tail(items))

\* InMemoryBackendImpl::get
MemGetResult(map, user_token, request) ==
    IF request.key = GLOBAL_VERSION_KEY
    THEN [status |-> OkStatus,
          value |-> KeyValue(GLOBAL_VERSION_KEY, EmptyStr,
                             get_current_global_version(map, user_token, request.store_id))]
    ELSE LET key == build_storage_key(user_token, request.store_id, request.key)
         IN IF key \in DOMAIN map
            THEN [status |-> OkStatus,
                  value |-> KeyValue(map[key].key, map[key].value, map[key].version)]
            ELSE [status |-> NoSuchKeyError]

\* InMemoryBackendImpl::put, from the item-count check to the response; the
\* mutex guard is held from the first validation to the last mutation.
MemPutResult(map, user_token, request) ==
    LET store_id == request.store_id
        global_kv(version) == KeyValue(GLOBAL_VERSION_KEY, EmptyStr, version)
    IN IF Len(request.transaction_items) + Len(request.delete_items)
              > MAX_PUT_REQUEST_ITEM_COUNT
       THEN [status |-> InvalidRequestError, map |-> map]
       ELSE IF IsSome(request.global_version)
               /\ validate_put_operation(map, user_token, store_id,
                       global_kv(Unwrap(request.global_version))) # OkStatus
       THEN [status |-> ConflictError, map |-> map]
       ELSE IF ValidatePuts(map, user_token, store_id, request.transaction_items) # OkStatus
       THEN [status |-> ConflictError, map |-> map]
       ELSE IF ValidateDeletes(map, user_token, store_id, request.delete_items) # OkStatus
       THEN [status |-> ConflictError, map |-> map]
       ELSE LET put == ExecutePuts(map, user_token, store_id, request.transaction_items)
                del == ExecuteDeletes(put, user_token, store_id, request.delete_items)
                fin == IF IsSome(request.global_version)
                       THEN execute_put_object(del, user_token, store_id,
                                global_kv(Unwrap(request.global_version)))
                       ELSE del
            IN [status |-> OkStatus, map |-> fin]

\* InMemoryBackendImpl::delete
MemDeleteResult(map, user_token, request) ==
    IF ~IsSome(request.key_value)
    THEN [status |-> InvalidRequestError, map |-> map]
    ELSE [status |-> OkStatus,
          map |-> execute_delete_object(map, user_token, request.store_id,
                                        Unwrap(request.key_value))]

---------------------------------------------------------------------------
(* The PostgreSQL backend (postgres_store.rs).  The vss_db table is a      *)
(* function from the primary keys present to the rows' other columns.  A   *)
(* statement yields the table as the transaction then sees it and the      *)
(* number of rows it affected.                                             *)

PrimaryKey(user_token, store_id, key) == <<user_token, store_id, key>>

build_vss_record(user_token, store_id, kv) ==
    [user_token |-> user_token, store_id |-> store_id, key |-> kv.key,
     value |-> kv.value, version |-> kv.version]

RecordKey(vss_record) ==
    PrimaryKey(vss_record.user_token, vss_record.store_id, vss_record.key)

InsertRow(table, pk, row) ==
    [k \in DOMAIN table \cup {pk} |-> IF k = pk THEN row ELSE table[k]]

DeleteRow(table, pk) == [k \in DOMAIN table \ {pk} |-> table[k]]

\* An upsert whose DO UPDATE increments the row's version.
upsert_incrementing_version(table, vss_record) ==
    LET pk == <<vss_record.user_token, vss_record.store_id, vss_record.key>>
    IN [table |-> [k \in DOMAIN table \cup {pk} |->
                      IF k # pk THEN table[k]
                      ELSE [value |-> vss_record.value,
                            version |-> IF pk \in DOMAIN table
                                        THEN table[pk].version + 1 ELSE 1]],
        num_rows |-> 1]

\* INSERT ... ON CONFLICT (user_token, store_id, key) DO UPDATE SET value, version = 1
execute_non_conditional_upsert(table, vss_record) ==
    [table |-> InsertRow(table, RecordKey(vss_record),
                         [value |-> vss_record.value, version |-> INITIAL_RECORD_VERSION]),
     num_rows |-> 1]

\* INSERT ... VALUES (.., 1, ..) ON CONFLICT DO NOTHING
execute_conditional_insert(table, vss_record) ==
    IF RecordKey(vss_record) \in DOMAIN table
    THEN [table |-> table, num_rows |-> 0]
    ELSE [table |-> InsertRow(table, RecordKey(vss_record),
                              [value |-> vss_record.value, version |-> INITIAL_RECORD_VERSION]),
          num_rows |-> 1]

\* An update that does not compare the row's version with the request's.
update_ignoring_stored_version(table, vss_record) ==
    LET pk == <<vss_record.user_token, vss_record.store_id, vss_record.key>>
    IN IF pk \in DOMAIN table
       THEN [table |-> [table EXCEPT ![pk] =
                          [value |-> vss_record.value,
                           version |-> SaturatingInc(vss_record.version)]],
             num_rows |-> 1]
       ELSE [table |-> table, num_rows |-> 0]

\* UPDATE vss_db SET value = $1, version = $2 WHERE <primary key> AND version = $7
execute_conditional_update(table, vss_record) ==
    LET pk == RecordKey(vss_record)
    IN IF pk \in DOMAIN table /\ table[pk].version = vss_record.version
       THEN [table |-> [table EXCEPT ![pk] =
                          [value |-> vss_record.value,
                           version |-> SaturatingInc(vss_record.version)]],
             num_rows |-> 1]
       ELSE [table |-> table, num_rows |-> 0]

execute_put_object_query(table, vss_record) ==
    IF vss_record.version = -1 THEN execute_non_conditional_upsert(table, vss_record)
    ELSE IF vss_record.version = 0 THEN execute_conditional_insert(table, vss_record)
    ELSE execute_conditional_update(table, vss_record)

\* DELETE FROM vss_db WHERE <primary key>
execute_non_conditional_delete(table, vss_record) ==
    LET pk == RecordKey(vss_record)
    IN IF pk \in DOMAIN table
       THEN [table |-> DeleteRow(table, pk), num_rows |-> 1]
       ELSE [table |-> table, num_rows |-> 0]

\* DELETE FROM vss_db WHERE <primary key> AND version = $4
execute_conditional_delete(table, vss_record) ==
    LET pk == RecordKey(vss_record)
    IN IF pk \in DOMAIN table /\ table[pk].version = vss_record.version
       THEN [table |-> DeleteRow(table, pk), num_rows |-> 1]
       ELSE [table |-> table, num_rows |-> 0]

execute_delete_object_query(table, vss_record) ==
    IF vss_record.version = -1 THEN execute_non_conditional_delete(table, vss_record)
    ELSE execute_conditional_delete(table, vss_record)

\* vss_put_records: the transaction_items, then the global_version record
\* when the request has one.
PutRecords(user_token, request) ==
    LET items == [i \in 1..Len(request.transaction_items) |->
                     build_vss_record(user_token, request.store_id,
                                      request.transaction_items[i])]
    IN IF IsSome(request.global_version)
       THEN Append(items, build_vss_record(user_token, request.store_id,
                     KeyValue(GLOBAL_VERSION_KEY, EmptyStr, Unwrap(request.global_version))))
       ELSE items

DeleteRecords(user_token, request) ==
    [i \in 1..Len(request.delete_items) |->
        build_vss_record(user_token, request.store_id, request.delete_items[i])]

\* The statements of one Put in the order they are executed.
Statement(kind, vss_record) == [kind |-> kind, record |-> vss_record]

PutStatements(user_token, request) ==
    LET puts == PutRecords(user_token, request)
        dels == DeleteRecords(user_token, request)
    IN [i \in 1..Len(puts) |-> Statement("put", puts[i])]
       \o [i \in 1..Len(dels) |-> Statement("delete", dels[i])]

ExecuteStatement(table, stmt) ==
    IF stmt.kind = "put" THEN execute_put_object_query(table, stmt.record)
    ELSE execute_delete_object_query(table, stmt.record)

\* The two loops over vss_put_records and vss_delete_records: the table
\* inside the transaction and batch_results.
RECURSIVE ExecuteBatch(_, _, _)
ExecuteBatch(table, stmts, batch_results) ==
    IF stmts = << >> THEN [table |-> table, batch_results |-> batch_results]
    ELSE LET r == ExecuteStatement(table, Head(stmts))
         IN ExecuteBatch(r.table, Tail(stmts), Append(batch_results, r.num_rows))

\* PostgresBackend::get
PgGetResult(table, user_token, request) ==
    LET pk == PrimaryKey(user_token, request.store_id, request.key)
    IN IF pk \in DOMAIN table
       THEN [status |-> OkStatus,
             value |-> KeyValue(request.key, table[pk].value, table[pk].version)]
       ELSE IF request.key = GLOBAL_VERSION_KEY
       THEN [status |-> OkStatus, value |-> KeyValue(GLOBAL_VERSION_KEY, EmptyStr, 0)]
       ELSE [status |-> NoSuchKeyError]

\* A put that reports the conflict but commits what its statements did.
PutCommittingOnConflict(table, user_token, request) ==
    LET r == ExecuteBatch(table, PutStatements(user_token, request), << >>)
    IN IF \E i \in 1..Len(r.batch_results) : r.batch_results[i] = 0
       THEN [status |-> ConflictError, table |-> r.table]
       ELSE [status |-> OkStatus, table |-> r.table]

\* A put that does not look at the number of items.
PutWithoutItemLimit(table, user_token, request) ==
    LET r == ExecuteBatch(table, PutStatements(user_token, request), << >>)
    IN IF \E i \in 1..Len(r.batch_results) : r.batch_results[i] = 0
       THEN [status |-> ConflictError, table |-> table]
       ELSE [status |-> OkStatus, table |-> r.table]

\* PostgresBackend::put with no other transaction in flight: rollback when
\* some statement affected no row, commit otherwise.
PgPutResult(table, user_token, request) ==
    IF Len(request.transaction_items) + Len(request.delete_items)
          > MAX_PUT_REQUEST_ITEM_COUNT
    THEN [status |-> InvalidRequestError, table |-> table]
    ELSE LET r == ExecuteBatch(table, PutStatements(user_token, request), << >>)
         IN IF \E i \in 1..Len(r.batch_results) : r.batch_results[i] = 0
            THEN [status |-> ConflictError, table |-> table]
            ELSE [status |-> OkStatus, table |-> r.table]

\* A delete that reports a conflict when its statement affected no row.
DeleteConflictingOnNoRow(table, user_token, request) ==
    IF ~IsSome(request.key_value)
    THEN [status |-> InvalidRequestError, table |-> table]
    ELSE LET r == execute_delete_object_query(table,
                      build_vss_record(user_token, request.store_id,
                                       Unwrap(request.key_value)))
         IN IF r.num_rows = 0
            THEN [status |-> ConflictError, table |-> table]
            ELSE [status |-> OkStatus, table |-> r.table]

\* PostgresBackend::delete with no other transaction in flight.
PgDeleteResult(table, user_token, request) ==
    IF ~IsSome(request.key_value)
    THEN [status |-> InvalidRequestError, table |-> table]
    ELSE LET vss_record == build_vss_record(user_token, request.store_id,
                                            Unwrap(request.key_value))
             r == execute_delete_object_query(table, vss_record)
         IN IF r.num_rows = 0
            THEN [status |-> OkStatus, table |-> table]
            ELSE [status |-> OkStatus, table |-> r.table]

---------------------------------------------------------------------------
(* ListKeyVersions.                                                        *)

\* Iterator::take(limit) with limit = (an i32) as usize: a negative i32
\* becomes a count above every length.
TakeUsize(items, limit) ==
    IF limit < 0 THEN items ELSE SubSeq(items, 1, Min(limit, Len(items)))

\* Iterator::skip(offset)
Skip(items, offset) ==
    IF offset >= Len(items) THEN << >> ELSE SubSeq(items, offset + 1, Len(items))

\* InMemoryBackendImpl::list_key_versions
MemListResult(map, user_token, request) ==
    LET store_id == request.store_id
        key_prefix == UnwrapOr(request.key_prefix, EmptyStr)
        page_size == UnwrapOr(request.page_size, LIST_KEY_VERSIONS_MAX_PAGE_SIZE)
        limit == Min(page_size, LIST_KEY_VERSIONS_MAX_PAGE_SIZE)
        offset == IF IsSome(request.page_token)
                  THEN UnwrapOr(ParseUsize(Unwrap(request.page_token)), 0)
                  ELSE 0
        global_version == IF offset = 0
                          THEN Some(get_current_global_version(map, user_token, store_id))
                          ELSE None
        storage_prefix == build_storage_key(user_token, store_id, key_prefix)
        global_key == build_storage_key(user_token, store_id, GLOBAL_VERSION_KEY)
        prefix_len == Len(user_token \o <<35>> \o store_id \o <<35>>)
        Keep(storage_key) == StartsWith(storage_key, storage_prefix)
                             /\ storage_key # global_key
        page == TakeUsize(Skip(SelectSeq(SortedSeq(DOMAIN map), Keep), offset), limit)
        page_items == [i \in 1..Len(page) |->
                          KeyValue(SubSeq(page[i], prefix_len + 1, Len(page[i])),
                                   EmptyStr, map[page[i]].version)]
        next_offset == offset + Len(page_items)
        next_page_token == IF page_items = << >> THEN Some(EmptyStr)
                           ELSE Some(UsizeToString(next_offset))
    IN [status |-> OkStatus, key_versions |-> page_items,
        next_page_token |-> next_page_token, global_version |-> global_version]

\* string LIKE pattern: % matches any sequence, _ any one character, and a
\* backslash makes the next pattern character literal.
RECURSIVE LikeMatch(_, _)
LikeMatch(str, pattern) ==
    IF pattern = EmptyStr THEN str = EmptyStr
    ELSE IF Head(pattern) = 37
         THEN LikeMatch(str, Tail(pattern))
              \/ (str # EmptyStr /\ LikeMatch(Tail(str), pattern))
    ELSE IF Head(pattern) = 95
         THEN str # EmptyStr /\ LikeMatch(Tail(str), Tail(pattern))
    ELSE IF Head(pattern) = 92 /\ Len(pattern) >= 2
         THEN str # EmptyStr /\ Head(str) = pattern[2]
              /\ LikeMatch(Tail(str), Tail(Tail(pattern)))
    ELSE str # EmptyStr /\ Head(str) = Head(pattern)
         /\ LikeMatch(Tail(str), Tail(pattern))

\* SELECT key, version FROM vss_db WHERE user_token = $1 AND store_id = $2
\*   AND key > $3 AND key LIKE $4 ORDER BY key LIMIT $5
\* The rows' keys in order; the caller rules out a negative LIMIT.
ListQuery(table, user_token, store_id, page_token_param, key_like, limit) ==
    LET matching == {pk \in DOMAIN table :
                        /\ pk[1] = user_token
                        /\ pk[2] = store_id
                        /\ StrLess(page_token_param, pk[3])
                        /\ LikeMatch(pk[3], key_like)}
        ordered == SortedSeq({pk[3] : pk \in matching})
    IN SubSeq(ordered, 1, Min(limit, Len(ordered)))

\* A page that keeps every row of the query, the global_version row too.
PgListPageKeepingSentinel(table, user_token, request, global_version) ==
    LET rows == ListQuery(table, user_token, request.store_id,
                          UnwrapOr(request.page_token, EmptyStr),
                          UnwrapOr(request.key_prefix, EmptyStr) \o <<37>>,
                          Min(UnwrapOr(request.page_size, I32_MAX),
                              LIST_KEY_VERSIONS_MAX_PAGE_SIZE))
    IN [status |-> OkStatus,
        key_versions |->
            [i \in 1..Len(rows) |->
                KeyValue(rows[i], EmptyStr,
                         table[PrimaryKey(user_token, request.store_id, rows[i])].version)],
        next_page_token |-> IF rows # << >> THEN Some(rows[Len(rows)]) ELSE Some(EmptyStr),
        global_version |-> global_version]

\* The part of PostgresBackend::list_key_versions after the global version
\* has been fetched: the query, the filter and the next page token.
PgListPage(table, user_token, request, global_version) ==
    LET store_id == request.store_id
        page_size == UnwrapOr(request.page_size, I32_MAX)
        limit == Min(page_size, LIST_KEY_VERSIONS_MAX_PAGE_SIZE)
        key_like == UnwrapOr(request.key_prefix, EmptyStr) \o <<37>>
        page_token_param == UnwrapOr(request.page_token, EmptyStr)
    IN IF limit < 0
       THEN [status |-> InternalServerError]
       ELSE LET rows == ListQuery(table, user_token, store_id, page_token_param,
                                  key_like, limit)
                Keep(key) == key # GLOBAL_VERSION_KEY
                keys == SelectSeq(rows, Keep)
                key_versions ==
                    [i \in 1..Len(keys) |->
                        KeyValue(keys[i], EmptyStr,
                                 table[PrimaryKey(user_token, store_id, keys[i])].version)]
                next_page_token == IF key_versions # << >>
                                   THEN Some(key_versions[Len(key_versions)].key)
                                   ELSE Some(EmptyStr)
            IN [status |-> OkStatus, key_versions |-> key_versions,
                next_page_token |-> next_page_token, global_version |-> global_version]

\* The global version a first-page list fetches through PostgresBackend::get.
PgListGlobalVersion(table, user_token, request) ==
    IF IsSome(request.page_token) THEN None
    ELSE Some(PgGetResult(table, user_token,
                  [store_id |-> request.store_id, key |-> GLOBAL_VERSION_KEY]).value.version)

\* PostgresBackend::list_key_versions with no write between its two reads.
PgListResult(table, user_token, request) ==
    PgListPage(table, user_token, request, PgListGlobalVersion(table, user_token, request))

---------------------------------------------------------------------------
(* The requests the model draws.                                           *)

InMemory == "InMemoryBackendImpl"
Postgres == "PostgresBackend"

\* "u", "s"
UserTokens == {<<117>>}
StoreIds == {<<115>>}

\* "a", "z"
KeyA == <<97>>
KeyZ == <<122>>
\* The keys of the requests drawn one at a time: a client key and the
\* reserved key, which the handlers accept as an item's key too.
Keys == {KeyA, GLOBAL_VERSION_KEY}

\* "" and "x"
Values == {EmptyStr, <<120>>}

\* The versions a request may name: -1 (non-conditional), 0, 1 .. i64::MAX,
\* and -2 for the i64 values below -1.
Versions == -2..I64_MAX

PutItems == {KeyValue(k, val, ver) : k \in Keys, val \in Values, ver \in Versions}
DeleteItems == {KeyValue(k, EmptyStr, ver) : k \in Keys, ver \in Versions}

\* The shapes of the PutObjectRequests drawn: <<number of transaction_items,
\* number of delete_items>>, every shape of at most two items.
PutShapes == {<<0, 0>>, <<1, 0>>, <<0, 1>>, <<2, 0>>, <<1, 1>>, <<0, 2>>}

PutObjectRequests ==
    UNION {
        {[store_id |-> sid, global_version |-> gv,
          transaction_items |-> ti, delete_items |-> di] :
            sid \in StoreIds,
            gv \in {None} \cup {Some(v) : v \in Versions},
            ti \in [1..shape[1] -> PutItems],
            di \in [1..shape[2] -> DeleteItems]} :
        shape \in PutShapes}

GetObjectRequests == {[store_id |-> sid, key |-> k] : sid \in StoreIds, k \in Keys}

DeleteObjectRequests ==
    {[store_id |-> sid, key_value |-> Some(kv)] : sid \in StoreIds, kv \in DeleteItems}

\* "a", "g", "_", "1", "2"
KeyPrefixes == {None, Some(EmptyStr), Some(KeyA), Some(<<103>>), Some(<<95>>)}
PageSizes == {None} \cup {Some(n) : n \in 1..MaxPageSize}
\* page_size is an i32: the sizes above, and a negative one, zero and one
\* above the maximum.
ListPageSizes ==
    PageSizes \cup {Some(-1), Some(0), Some(LIST_KEY_VERSIONS_MAX_PAGE_SIZE + 1)}
PageTokens == {None, Some(EmptyStr), Some(KeyA), Some(GLOBAL_VERSION_KEY),
               Some(<<49>>), Some(<<50>>)}

ListKeyVersionsRequests ==
    {[store_id |-> sid, key_prefix |-> kp, page_size |-> ps, page_token |-> pt] :
        sid \in StoreIds, kp \in KeyPrefixes, ps \in ListPageSizes, pt \in PageTokens}

---------------------------------------------------------------------------
(* The service configuration (vss_service.rs).                             *)

\* VssServiceConfig::new: Some(config) for Ok(config), None for Err(..).
VssServiceConfig_new(maximum_request_body_size) ==
    IF maximum_request_body_size > MAXIMUM_REQUEST_BODY_SIZE
    THEN None
    ELSE Some([maximum_request_body_size |-> maximum_request_body_size])

\* impl Default for VssServiceConfig
VssServiceConfig_default == [maximum_request_body_size |-> MAXIMUM_REQUEST_BODY_SIZE]

---------------------------------------------------------------------------
(* Schema migrations (migrations.rs, PostgresBackend::migrate_vss_database). *)
(* A database is its set of tables, the rows of vss_db_version and of       *)
(* vss_db_upgrades, and the migration statements committed to it so far,    *)
(* by their index in the list, in the order of their execution.             *)

CreateVersionTable == "CREATE TABLE vss_db_version (db_version INTEGER);"
InsertVersionRow == "INSERT INTO vss_db_version VALUES(1);"
CreateUpgradesTable == "CREATE TABLE vss_db_upgrades (upgrade_from INTEGER);"
CreateVssDbTable == "CREATE TABLE IF NOT EXISTS vss_db (..);"
DUMMY_MIGRATION == "SELECT 1 WHERE FALSE;"

MIGRATIONS ==
    <<CreateVersionTable, InsertVersionRow, CreateUpgradesTable, CreateVssDbTable>>

\* The database create_database leaves: no table.
EmptyDatabase ==
    [tables |-> {}, db_version |-> << >>, upgrades |-> << >>, executed |-> << >>]

\* One migration statement, the one at index idx of its list, executed on
\* the database as the transaction sees it: ok is FALSE when the statement
\* fails.
ExecuteMigration(t, stmt, idx) ==
    LET done == [t EXCEPT !.executed = Append(@, idx)]
    IN IF stmt = CreateVersionTable
       THEN IF "vss_db_version" \in t.tables THEN [ok |-> FALSE, db |-> t]
            ELSE [ok |-> TRUE,
                  db |-> [done EXCEPT !.tables = @ \cup {"vss_db_version"}]]
       ELSE IF stmt = InsertVersionRow
       THEN IF "vss_db_version" \notin t.tables THEN [ok |-> FALSE, db |-> t]
            ELSE [ok |-> TRUE, db |-> [done EXCEPT !.db_version = Append(@, 1)]]
       ELSE IF stmt = CreateUpgradesTable
       THEN IF "vss_db_upgrades" \in t.tables THEN [ok |-> FALSE, db |-> t]
            ELSE [ok |-> TRUE,
                  db |-> [done EXCEPT !.tables = @ \cup {"vss_db_upgrades"}]]
       ELSE IF stmt = CreateVssDbTable
       THEN [ok |-> TRUE, db |-> [done EXCEPT !.tables = @ \cup {"vss_db"}]]
       ELSE [ok |-> TRUE, db |-> done]

\* GET_VERSION_STMT through query_one: the version of the single row;
\* UNDEFINED_TABLE without the table; an error for any other number of rows.
GetVersion(db) ==
    IF "vss_db_version" \notin db.tables THEN [ok |-> FALSE, code |-> "UNDEFINED_TABLE"]
    ELSE IF Len(db.db_version) # 1 THEN [ok |-> FALSE, code |-> "RowCount"]
    ELSE [ok |-> TRUE, db_version |-> db.db_version[1]]

\* LOG_MIGRATION_STMT: the rows added, -1 when the statement fails.
LogMigration(t, migration_start) ==
    IF "vss_db_upgrades" \notin t.tables THEN [num_rows |-> -1, db |-> t]
    ELSE [num_rows |-> 1, db |-> [t EXCEPT !.upgrades = Append(@, migration_start)]]

\* UPDATE_VERSION_STMT: the rows updated, -1 when the statement fails.
UpdateVersion(t, next_migration_start) ==
    IF "vss_db_version" \notin t.tables THEN [num_rows |-> -1, db |-> t]
    ELSE [num_rows |-> Len(t.db_version),
          db |-> [t EXCEPT !.db_version =
                      [i \in 1..Len(t.db_version) |-> next_migration_start]]]

\* The loop over migrations[migration_start..], from the statement at
\* position i (counted from 1); op numbers the database operations of the
\* run, and the one numbered `fault`, if any, fails with an I/O error.
RECURSIVE ApplyMigrations(_, _, _, _, _)
ApplyMigrations(t, migrations, i, op, fault) ==
    IF i > Len(migrations) THEN [ok |-> TRUE, db |-> t]
    ELSE IF fault = Some(op) THEN [ok |-> FALSE, db |-> t]
    ELSE IF ~ExecuteMigration(t, migrations[i], i - 1).ok THEN [ok |-> FALSE, db |-> t]
    ELSE ApplyMigrations(ExecuteMigration(t, migrations[i], i - 1).db,
                         migrations, i + 1, op + 1, fault)

\* The result of a run and the database it leaves: Ok((migration_start,
\* len)), Err(message) or a panic with its message.
MigrationResult(status, message, migration_start, db) ==
    [status |-> status, message |-> message,
     migration_start |-> migration_start, db |-> db]

\* The end of a run whose transaction has executed the migrations, the log
\* insert and the version update and now sees t: commit.  When the commit
\* fails the changes are kept or lost (commit_lost).
CommitMigration(db, t, migration_start, op, fault, commit_lost) ==
    IF fault = Some(op)
    THEN MigrationResult("Err", "Transaction commit error", migration_start,
                         IF commit_lost THEN db ELSE t)
    ELSE MigrationResult("Ok", "", migration_start, t)

\* The run after its migrations: log, then version update, then commit.
\* An error or a panic drops the transaction, which rolls back to db.
FinishMigration(db, applied, migration_start, len, op, fault, commit_lost) ==
    IF ~applied.ok
    THEN MigrationResult("Err", "Database migration failed", migration_start, db)
    ELSE IF fault = Some(op) \/ LogMigration(applied.db, migration_start).num_rows = -1
    THEN MigrationResult("Err", "Failed to log database migration", migration_start, db)
    ELSE IF LogMigration(applied.db, migration_start).num_rows # 1
    THEN MigrationResult("panic", "LOG_MIGRATION_STMT should only add one row at a time",
                         migration_start, db)
    ELSE IF fault = Some(op + 1)
            \/ UpdateVersion(LogMigration(applied.db, migration_start).db, len).num_rows = -1
    THEN MigrationResult("Err", "Failed to update the version of the schema",
                         migration_start, db)
    ELSE IF UpdateVersion(LogMigration(applied.db, migration_start).db, len).num_rows # 1
    THEN MigrationResult("panic",
             "UPDATE_VERSION_STMT should only update the unique row in the version table",
             migration_start, db)
    ELSE CommitMigration(db,
                         UpdateVersion(LogMigration(applied.db, migration_start).db, len).db,
                         migration_start, op + 2, fault, commit_lost)

\* The run once migration_start is known and the transaction is open.
RunMigrations(db, migrations, migration_start, fault, commit_lost) ==
    IF migration_start = Len(migrations)
    THEN MigrationResult("Ok", "", migration_start, db)
    ELSE IF migration_start > Len(migrations)
    THEN MigrationResult("panic", "We do not allow downgrades", migration_start, db)
    ELSE FinishMigration(db,
                         ApplyMigrations(db, migrations, migration_start + 1, 4, fault),
                         migration_start, Len(migrations),
                         4 + Len(migrations) - migration_start, fault, commit_lost)

\* The run up to the open transaction: the connection from the pool
\* (operation 1), the stored version (2), the transaction (3).  ok is FALSE
\* with the error the run returns; migration_start is 0 when the version
\* table is not defined.
StartMigration(db, fault) ==
    IF fault = Some(1)
    THEN [ok |-> FALSE, message |-> "Failed to fetch a connection from Pool"]
    ELSE IF fault = Some(2) \/ (~GetVersion(db).ok /\ GetVersion(db).code # "UNDEFINED_TABLE")
    THEN [ok |-> FALSE, message |-> "Failed to query the version of the database schema"]
    ELSE IF fault = Some(3)
    THEN [ok |-> FALSE, message |-> "Transaction start error"]
    ELSE [ok |-> TRUE,
          migration_start |-> IF GetVersion(db).ok THEN GetVersion(db).db_version ELSE 0]

\* migrate_vss_database without a transaction: what the statements did
\* before a failure stays.
migrate_without_transaction(db, migrations, fault, commit_lost) ==
    IF ~StartMigration(db, fault).ok
    THEN MigrationResult("Err", StartMigration(db, fault).message, 0, db)
    ELSE LET migration_start == StartMigration(db, fault).migration_start
             applied == ApplyMigrations(db, migrations, migration_start + 1, 4, fault)
         IN IF migration_start >= Len(migrations) \/ applied.ok
            THEN RunMigrations(db, migrations, migration_start, fault, commit_lost)
            ELSE MigrationResult("Err", "Database migration failed", migration_start,
                                 applied.db)

\* migrate_vss_database that logs the length of the list, not the version
\* it started from.
migrate_logging_end(db, migrations, fault, commit_lost) ==
    IF ~StartMigration(db, fault).ok
    THEN MigrationResult("Err", StartMigration(db, fault).message, 0, db)
    ELSE LET r == RunMigrations(db, migrations, StartMigration(db, fault).migration_start,
                                fault, commit_lost)
         IN IF r.db = db THEN r
            ELSE [r EXCEPT !.db.upgrades = Append(db.upgrades, Len(migrations))]

\* migrate_vss_database.
migrate_vss_database(db, migrations, fault, commit_lost) ==
    IF ~StartMigration(db, fault).ok
    THEN MigrationResult("Err", StartMigration(db, fault).message, 0, db)
    ELSE RunMigrations(db, migrations, StartMigration(db, fault).migration_start,
                       fault, commit_lost)

\* The database PostgresBackend::new_internal leaves: MIGRATIONS applied.
MigratedDatabase == migrate_vss_database(EmptyDatabase, MIGRATIONS, None, FALSE).db

---------------------------------------------------------------------------
(* State.                                                                  *)

EmptyMap == << >>

NoRequest == [op |-> "none"]
NoResponse == [status |-> "none"]
IdlePager == [state |-> "idle"]
Connections == {1, 2}
IdleTxn == [pc |-> "idle"]
IdleTxns == [c \in Connections |-> IdleTxn]
IdleLister == [pc |-> "idle"]

\* InMemoryBackendImpl::new / a freshly migrated, empty vss_db table.
Init ==
    /\ config = VssServiceConfig_default
    /\ database = MigratedDatabase
    /\ backend \in {InMemory, Postgres}
    /\ store = EmptyMap
    /\ vss_db = EmptyMap
    /\ req = NoRequest
    /\ resp = NoResponse
    /\ prev = EmptyMap
    /\ pager = IdlePager
    /\ txn = IdleTxns
    /\ lister = IdleLister

Request(op, user_token, request) ==
    [op |-> op, user_token |-> user_token, request |-> request]

---------------------------------------------------------------------------
(* One request at a time: a handler runs from its first line to its        *)
(* response, and the response is then handed back to the caller.           *)

MemGet(user_token, request) ==
    /\ backend = InMemory
    /\ req' = Request("get", user_token, request)
    /\ resp' = MemGetResult(store, user_token, request)
    /\ prev' = store
    /\ UNCHANGED <<config, database, backend, store, vss_db, pager, txn, lister>>

MemPut(user_token, request) ==
    /\ backend = InMemory
    /\ LET r == MemPutResult(store, user_token, request)
       IN /\ store' = r.map
          /\ resp' = [status |-> r.status]
    /\ req' = Request("put", user_token, request)
    /\ prev' = store
    /\ UNCHANGED <<config, database, backend, vss_db, pager, txn, lister>>

MemDelete(user_token, request) ==
    /\ backend = InMemory
    /\ LET r == MemDeleteResult(store, user_token, request)
       IN /\ store' = r.map
          /\ resp' = [status |-> r.status]
    /\ req' = Request("delete", user_token, request)
    /\ prev' = store
    /\ UNCHANGED <<config, database, backend, vss_db, pager, txn, lister>>

MemList(user_token, request) ==
    /\ backend = InMemory
    /\ req' = Request("list", user_token, request)
    /\ resp' = MemListResult(store, user_token, request)
    /\ prev' = store
    /\ UNCHANGED <<config, database, backend, store, vss_db, pager, txn, lister>>

PgGet(user_token, request) ==
    /\ backend = Postgres
    /\ req' = Request("get", user_token, request)
    /\ resp' = PgGetResult(vss_db, user_token, request)
    /\ prev' = vss_db
    /\ UNCHANGED <<config, database, backend, store, vss_db, pager, txn, lister>>

PgPut(user_token, request) ==
    /\ backend = Postgres
    /\ LET r == PgPutResult(vss_db, user_token, request)
       IN /\ vss_db' = r.table
          /\ resp' = [status |-> r.status]
    /\ req' = Request("put", user_token, request)
    /\ prev' = vss_db
    /\ UNCHANGED <<config, database, backend, store, pager, txn, lister>>

PgDelete(user_token, request) ==
    /\ backend = Postgres
    /\ LET r == PgDeleteResult(vss_db, user_token, request)
       IN /\ vss_db' = r.table
          /\ resp' = [status |-> r.status]
    /\ req' = Request("delete", user_token, request)
    /\ prev' = vss_db
    /\ UNCHANGED <<config, database, backend, store, pager, txn, lister>>

PgList(user_token, request) ==
    /\ backend = Postgres
    /\ req' = Request("list", user_token, request)
    /\ resp' = PgListResult(vss_db, user_token, request)
    /\ prev' = vss_db
    /\ UNCHANGED <<config, database, backend, store, vss_db, pager, txn, lister>>

\* The identities (user_token, store_id, key) that have a record.
Identities(map) ==
    IF backend = InMemory
    THEN {<<map[sk].user_token, map[sk].store_id, map[sk].key>> : sk \in DOMAIN map}
    ELSE DOMAIN map

Records == IF backend = InMemory THEN store ELSE vss_db

\* A request arrives only after the previous response has left.
Get ==
    /\ req = NoRequest
    /\ \E u \in UserTokens, r \in GetObjectRequests : MemGet(u, r) \/ PgGet(u, r)

Put ==
    /\ req = NoRequest
    /\ \E u \in UserTokens, r \in PutObjectRequests : MemPut(u, r) \/ PgPut(u, r)

Delete ==
    /\ req = NoRequest
    /\ \E u \in UserTokens, r \in DeleteObjectRequests : MemDelete(u, r) \/ PgDelete(u, r)

List ==
    /\ req = NoRequest
    /\ \E u \in UserTokens, r \in ListKeyVersionsRequests : MemList(u, r) \/ PgList(u, r)

\* The response leaves the handler; the next request may start.
Respond ==
    /\ req # NoRequest
    /\ req' = NoRequest
    /\ resp' = NoResponse
    /\ prev' = EmptyMap
    /\ UNCHANGED <<config, database, backend, store, vss_db, pager, txn, lister>>

Next == Get \/ Put \/ Delete \/ List \/ Respond

Spec == Init /\ [][Next]_vars

---------------------------------------------------------------------------
(* What the properties below observe.                                      *)

\* The stored <<value, version>> of an identity in a map of the running
\* backend, as an Option.
Stored(map, user_token, store_id, key) ==
    IF backend = InMemory
    THEN LET sk == build_storage_key(user_token, store_id, key)
         IN IF sk \in DOMAIN map
            THEN Some([value |-> map[sk].value, version |-> map[sk].version])
            ELSE None
    ELSE LET pk == PrimaryKey(user_token, store_id, key)
         IN IF pk \in DOMAIN map
            THEN Some([value |-> map[pk].value, version |-> map[pk].version])
            ELSE None

\* The response a Get of `key` gets from the running backend on `map`.
GetResult(map, user_token, store_id, key) ==
    IF backend = InMemory
    THEN MemGetResult(map, user_token, [store_id |-> store_id, key |-> key])
    ELSE PgGetResult(map, user_token, [store_id |-> store_id, key |-> key])

\* The version Get(global_version) returns on `map`.
GlobalVersion(map, user_token, store_id) ==
    GetResult(map, user_token, store_id, GLOBAL_VERSION_KEY).value.version

IsPut == req.op = "put"
PutOk == IsPut /\ resp.status = OkStatus

\* The record of the last request's identity (user_token, store_id, key)
\* before and after the request.
Before(key) == Stored(prev, req.user_token, req.request.store_id, key)
After(key) == Stored(Records, req.user_token, req.request.store_id, key)
GetAfter(key) == GetResult(Records, req.user_token, req.request.store_id, key)
GlobalVersionBefore == GlobalVersion(prev, req.user_token, req.request.store_id)
GlobalVersionAfter == GlobalVersion(Records, req.user_token, req.request.store_id)

\* How many times `key` is named by a PutObjectRequest: in transaction_items,
\* in delete_items and, for the reserved key, by the global_version field.
Occurrences(request, key) ==
    Cardinality({i \in 1..Len(request.transaction_items) :
                    request.transaction_items[i].key = key})
    + Cardinality({i \in 1..Len(request.delete_items) :
                    request.delete_items[i].key = key})
    + (IF key = GLOBAL_VERSION_KEY /\ IsSome(request.global_version) THEN 1 ELSE 0)

DistinctKeys(request) == \A k \in Keys : Occurrences(request, k) <= 1

\* The last request is a Put of exactly one transaction item, with no
\* delete_items and no global_version.
SingleItemPut ==
    /\ IsPut
    /\ req.request.global_version = None
    /\ req.request.delete_items = << >>
    /\ Len(req.request.transaction_items) = 1

TheItem == req.request.transaction_items[1]

---------------------------------------------------------------------------
(* C1 - conditional update.                                                *)

\* C1 as stated: a Put of the single item (k, value, v), v > 0, succeeds
\* exactly when k's stored version is v and fails with Conflict otherwise;
\* after a success k holds the item's value at version v + 1, for every v up
\* to i64::MAX.
C1_ConditionalUpdateIncrements ==
    (SingleItemPut /\ TheItem.version > 0) =>
        /\ resp.status = OkStatus <=>
               (IsSome(Before(TheItem.key))
                /\ Unwrap(Before(TheItem.key)).version = TheItem.version)
        /\ resp.status \in {OkStatus, ConflictError}
        /\ resp.status = OkStatus =>
               After(TheItem.key) = Some([value |-> TheItem.value,
                                          version |-> TheItem.version + 1])

\* C1 as amended: a Put of the single item (k, value, v), v > 0, succeeds
\* exactly when k's stored version is v and fails with Conflict otherwise;
\* after a success k holds the item's value at version v + 1 when
\* v < i64::MAX, and at version i64::MAX when v = i64::MAX.
C1_ConditionalUpdateSaturates ==
    (SingleItemPut /\ TheItem.version > 0) =>
        /\ resp.status = OkStatus <=>
               (IsSome(Before(TheItem.key))
                /\ Unwrap(Before(TheItem.key)).version = TheItem.version)
        /\ resp.status \in {OkStatus, ConflictError}
        /\ resp.status = OkStatus =>
               After(TheItem.key) =
                   Some([value |-> TheItem.value,
                         version |-> IF TheItem.version < I64_MAX
                                     THEN TheItem.version + 1 ELSE I64_MAX])

\* A conditional update at version 1 succeeded on a record of another value
\* and left it at version 2.
C1_Witness ==
    /\ SingleItemPut
    /\ TheItem.version = 1
    /\ resp.status = OkStatus
    /\ Unwrap(Before(TheItem.key)).value # TheItem.value
    /\ Unwrap(After(TheItem.key)).version = 2

---------------------------------------------------------------------------
(* C2 - conditional insert.                                                *)

VersionZeroItems ==
    {i \in 1..Len(req.request.transaction_items) :
        req.request.transaction_items[i].version = 0}

\* C2: in a Put of distinct keys, an item (k, value, 0) lets the Put succeed
\* only when k has no record, and the Put fails with Conflict when k has one;
\* after a success Get(k) returns (value, version 1).  The stores reached
\* include those where k was written and then deleted.
C2_InsertIfAbsent ==
    (IsPut /\ DistinctKeys(req.request)) =>
        \A i \in VersionZeroItems :
            LET item == req.request.transaction_items[i]
            IN /\ resp.status = OkStatus => Before(item.key) = None
               /\ Before(item.key) # None => resp.status = ConflictError
               /\ resp.status = OkStatus =>
                      GetAfter(item.key) =
                          [status |-> OkStatus,
                           value |-> KeyValue(item.key, item.value, 1)]

---------------------------------------------------------------------------
(* C3 - non-conditional put.                                               *)

\* A Put all of whose checks are those of version -1 items.
OnlyNonConditionalItems ==
    /\ IsPut
    /\ req.request.global_version = None
    /\ req.request.delete_items = << >>
    /\ \A i \in 1..Len(req.request.transaction_items) :
           req.request.transaction_items[i].version = -1

\* C3: a Put whose items all have version -1 succeeds whatever the store
\* holds, and every successful Put of distinct keys leaves each of its
\* (k, value, -1) items stored with the item's value and version exactly 1.
C3_NonConditionalPut ==
    /\ OnlyNonConditionalItems => resp.status = OkStatus
    /\ (PutOk /\ DistinctKeys(req.request)) =>
           \A i \in 1..Len(req.request.transaction_items) :
               LET item == req.request.transaction_items[i]
               IN item.version = -1 =>
                      After(item.key) = Some([value |-> item.value, version |-> 1])

\* A version -1 item overwrote a record whose version was above 1 and whose
\* value was different.
C3_Witness ==
    /\ SingleItemPut
    /\ TheItem.version = -1
    /\ resp.status = OkStatus
    /\ IsSome(Before(TheItem.key))
    /\ Unwrap(Before(TheItem.key)).version > 1
    /\ Unwrap(Before(TheItem.key)).value # TheItem.value
    /\ After(TheItem.key) = Some([value |-> TheItem.value, version |-> 1])

---------------------------------------------------------------------------
(* C4 - all-or-nothing.                                                    *)

VersionMismatch(key, version) ==
    ~IsSome(Before(key)) \/ Unwrap(Before(key)).version # version

\* Some conditional check of the last Put fails against the records it found.
SomeCheckFails ==
    \/ \E i \in 1..Len(req.request.transaction_items) :
           LET item == req.request.transaction_items[i]
           IN \/ item.version = 0 /\ IsSome(Before(item.key))
              \/ item.version \notin {-1, 0} /\ VersionMismatch(item.key, item.version)
    \/ \E i \in 1..Len(req.request.delete_items) :
           LET item == req.request.delete_items[i]
           IN item.version # -1 /\ VersionMismatch(item.key, item.version)
    \/ /\ IsSome(req.request.global_version)
       /\ LET g == Unwrap(req.request.global_version)
          IN \/ g = 0 /\ IsSome(Before(GLOBAL_VERSION_KEY))
             \/ g \notin {-1, 0} /\ VersionMismatch(GLOBAL_VERSION_KEY, g)

\* C4: a Put of distinct keys one of whose checks fails returns Conflict, and
\* a Put that does not succeed returns Conflict and leaves every record, the
\* sentinel included, as it was.
C4_AllOrNothing ==
    IsPut =>
        /\ (DistinctKeys(req.request) /\ SomeCheckFails) => resp.status = ConflictError
        /\ resp.status # OkStatus => (resp.status = ConflictError /\ Records = prev)

\* A Put of two items failed on its second item although its first item
\* alone would have changed a record.
C4_Witness ==
    /\ IsPut
    /\ resp.status = ConflictError
    /\ Len(req.request.transaction_items) = 2
    /\ req.request.transaction_items[1].version = -1
    /\ LET first == req.request.transaction_items[1]
       IN Before(first.key) # Some([value |-> first.value, version |-> 1])
    /\ LET second == req.request.transaction_items[2]
       IN second.version > 0 /\ VersionMismatch(second.key, second.version)
    /\ Records = prev

---------------------------------------------------------------------------
(* C5, C6, C7 - the global version.                                        *)

HasGlobalVersion == IsPut /\ IsSome(req.request.global_version)
RequestGlobalVersion == Unwrap(req.request.global_version)

\* C5: a Put of distinct keys that carries global_version = g succeeds only
\* if Get(global_version) returned g before it; for every other g it fails
\* with Conflict and changes no record.
C5_GlobalVersionChecked ==
    (HasGlobalVersion /\ DistinctKeys(req.request)) =>
        /\ resp.status = OkStatus => GlobalVersionBefore = RequestGlobalVersion
        /\ GlobalVersionBefore # RequestGlobalVersion =>
               (resp.status = ConflictError /\ Records = prev)

\* C6: after every successful Put that carries global_version = g, whatever
\* its other items, Get(global_version) returns version g + 1.
C6_GlobalVersionAdvances ==
    (HasGlobalVersion /\ resp.status = OkStatus) =>
        GlobalVersionAfter = RequestGlobalVersion + 1

\* C7: after any Put that carries no global_version, successful or not and
\* whatever its items, Get(global_version) returns the version it returned
\* before the Put.
C7_GlobalVersionUntouched ==
    (IsPut /\ req.request.global_version = None) =>
        GlobalVersionAfter = GlobalVersionBefore

---------------------------------------------------------------------------
(* Puts in flight together.  The in-memory backend takes the store's mutex *)
(* before it validates and gives it back after it has applied the request. *)
(* The PostgreSQL backend runs the statements of a Put one by one inside a *)
(* transaction of the default isolation level (READ COMMITTED): a row a    *)
(* transaction has written is locked until it commits or rolls back, a     *)
(* statement that has to write a row locked by another transaction waits,  *)
(* and a statement sees what is committed plus its own transaction's       *)
(* writes.                                                                 *)

KeyB == <<98>>
RaceKeys == {KeyA, KeyB}

\* The client behind each connection writes a value of its own.
ConnValue(c) == IF c = 1 THEN <<120>> ELSE <<121>>

\* The Puts that race: up to two conditional items on distinct keys, with or
\* without a global_version.
RaceItems(c) == {KeyValue(k, ConnValue(c), ver) : k \in RaceKeys, ver \in {0, 1}}
RaceItemSeqs(c) ==
    {<< >>} \cup {<<i>> : i \in RaceItems(c)}
    \cup {p \in {<<i, j>> : i \in RaceItems(c), j \in RaceItems(c)} :
              p[1].key # p[2].key}
RacePutRequests(c) ==
    {[store_id |-> sid, transaction_items |-> items, delete_items |-> << >>,
      global_version |-> g] :
        sid \in StoreIds, items \in RaceItemSeqs(c), g \in {None, Some(-1), Some(0)}}

\* The Puts that prepare the store before the race.
SeedPutRequests ==
    {[store_id |-> sid, transaction_items |-> <<KeyValue(k, EmptyStr, -1)>>,
      delete_items |-> << >>, global_version |-> None] :
        sid \in StoreIds, k \in RaceKeys}
    \cup {[store_id |-> sid, transaction_items |-> << >>, delete_items |-> << >>,
           global_version |-> Some(0)] : sid \in StoreIds}

InCriticalSection(c) == txn[c].pc \in {"locked", "validated"}
MutexFree == \A c \in Connections : ~InCriticalSection(c)

\* A Put handled from start to end before any other request starts.
SeedPut ==
    /\ txn = IdleTxns
    /\ lister = IdleLister
    /\ \E u \in UserTokens, r \in SeedPutRequests :
           \/ /\ backend = InMemory
              /\ store' = MemPutResult(store, u, r).map
              /\ prev' = store'
              /\ UNCHANGED vss_db
           \/ /\ backend = Postgres
              /\ vss_db' = PgPutResult(vss_db, u, r).table
              /\ prev' = vss_db'
              /\ UNCHANGED store
    /\ UNCHANGED <<config, database, backend, req, resp, pager, txn, lister>>

Done(t, status) ==
    [pc |-> "done", user_token |-> t.user_token, request |-> t.request,
     status |-> status]

\* InMemoryBackendImpl::put: self.store.lock().await
MemLock(c, user_token, request) ==
    /\ backend = InMemory
    /\ txn[c] = IdleTxn
    /\ MutexFree
    /\ txn' = [txn EXCEPT ![c] = [pc |-> "locked", user_token |-> user_token,
                                  request |-> request]]
    /\ UNCHANGED <<config, database, backend, store, vss_db, req, resp, prev, pager, lister>>

\* InMemoryBackendImpl::put: the validations; an Err return drops the guard.
MemValidate(c) ==
    /\ txn[c].pc = "locked"
    /\ LET r == MemPutResult(store, txn[c].user_token, txn[c].request)
       IN txn' = [txn EXCEPT ![c] = IF r.status = OkStatus
                                    THEN [txn[c] EXCEPT !.pc = "validated"]
                                    ELSE Done(txn[c], r.status)]
    /\ UNCHANGED <<config, database, backend, store, vss_db, req, resp, prev, pager, lister>>

\* InMemoryBackendImpl::put: the mutations, then the guard is dropped.
MemApply(c) ==
    /\ txn[c].pc = "validated"
    /\ store' = MemPutResult(store, txn[c].user_token, txn[c].request).map
    /\ txn' = [txn EXCEPT ![c] = Done(txn[c], OkStatus)]
    /\ UNCHANGED <<config, database, backend, vss_db, req, resp, prev, pager, lister>>

\* PostgresBackend::put up to conn.transaction()
PgBegin(c, user_token, request) ==
    /\ backend = Postgres
    /\ txn[c] = IdleTxn
    /\ txn' = [txn EXCEPT ![c] =
                  [pc |-> "running", user_token |-> user_token, request |-> request,
                   stmts |-> PutStatements(user_token, request),
                   batch_results |-> << >>, writes |-> << >>]]
    /\ UNCHANGED <<config, database, backend, store, vss_db, req, resp, prev, pager, lister>>

\* The table as connection c's transaction sees it: the committed rows with
\* its own writes on top.
View(c) ==
    LET w == txn[c].writes
        gone == {pk \in DOMAIN w : ~w[pk].present}
        there == {pk \in DOMAIN w : w[pk].present}
    IN [pk \in (DOMAIN vss_db \ gone) \cup there |->
           IF pk \in there THEN [value |-> w[pk].value, version |-> w[pk].version]
           ELSE vss_db[pk]]

Running(c) == txn[c].pc = "running" /\ txn[c].stmts # << >>
NextStatement(c) == Head(txn[c].stmts)
NextResult(c) == ExecuteStatement(View(c), NextStatement(c))

LockedByOther(c, pk) ==
    \E d \in Connections \ {c} : txn[d].pc = "running" /\ pk \in DOMAIN txn[d].writes

IsInsert(stmt) == stmt.kind = "put" /\ stmt.record.version <= 0

\* The next statement of c has to write a row another transaction has
\* locked: an INSERT of that key, or an UPDATE or DELETE whose WHERE clause
\* the committed row satisfies.
Waits(c) ==
    /\ Running(c)
    /\ LockedByOther(c, RecordKey(NextStatement(c).record))
    /\ (IsInsert(NextStatement(c)) \/ NextResult(c).num_rows > 0)

\* PostgresBackend::put: one execute_put_object_query or
\* execute_delete_object_query of the two loops.
PgExecute(c) ==
    /\ Running(c)
    /\ ~Waits(c)
    /\ LET r == NextResult(c)
           pk == RecordKey(NextStatement(c).record)
           written == IF pk \in DOMAIN r.table
                      THEN [present |-> TRUE, value |-> r.table[pk].value,
                            version |-> r.table[pk].version]
                      ELSE [present |-> FALSE, value |-> EmptyStr, version |-> 0]
           w == txn[c].writes
       IN txn' = [txn EXCEPT ![c] =
                     [txn[c] EXCEPT
                        !.stmts = Tail(txn[c].stmts),
                        !.batch_results = Append(txn[c].batch_results, r.num_rows),
                        !.writes = IF r.num_rows = 0 THEN w
                                   ELSE [k \in DOMAIN w \cup {pk} |->
                                            IF k = pk THEN written ELSE w[k]]]]
    /\ UNCHANGED <<config, database, backend, store, vss_db, req, resp, prev, pager, lister>>

\* PostgresBackend::put: rollback and Conflict when some statement affected
\* no row, commit otherwise.
PgFinish(c) ==
    /\ txn[c].pc = "running"
    /\ txn[c].stmts = << >>
    /\ IF \E i \in 1..Len(txn[c].batch_results) : txn[c].batch_results[i] = 0
       THEN /\ txn' = [txn EXCEPT ![c] = Done(txn[c], ConflictError)]
            /\ UNCHANGED vss_db
       ELSE /\ txn' = [txn EXCEPT ![c] = Done(txn[c], OkStatus)]
            /\ vss_db' = View(c)
    /\ UNCHANGED <<config, database, backend, store, req, resp, prev, pager, lister>>

\* Two transactions wait for each other's row: PostgreSQL ends one of them
\* with a "deadlock detected" error; the statement's io::Error leaves put
\* through `?`, which drops (rolls back) the transaction.
PgDeadlock(c) ==
    /\ Waits(c)
    /\ \E d \in Connections \ {c} :
           /\ Waits(d)
           /\ RecordKey(NextStatement(c).record) \in DOMAIN txn[d].writes
           /\ RecordKey(NextStatement(d).record) \in DOMAIN txn[c].writes
    /\ txn' = [txn EXCEPT ![c] = Done(txn[c], InternalServerError)]
    /\ UNCHANGED <<config, database, backend, store, vss_db, req, resp, prev, pager, lister>>

RaceBegin ==
    \E c \in Connections, u \in UserTokens :
        \E r \in RacePutRequests(c) : MemLock(c, u, r) \/ PgBegin(c, u, r)

\* One step of a Put in flight.
PutStep ==
    \E c \in Connections :
        MemValidate(c) \/ MemApply(c) \/ PgExecute(c) \/ PgFinish(c)

Deadlock == \E c \in Connections : PgDeadlock(c)

NextRace == SeedPut \/ RaceBegin \/ PutStep \/ Deadlock

SpecRace == Init /\ [][NextRace]_vars

\* The outcome of handling `request` alone on `map`.
PutResult(map, user_token, request) ==
    IF backend = InMemory
    THEN LET r == MemPutResult(map, user_token, request)
         IN [status |-> r.status, records |-> r.map]
    ELSE LET r == PgPutResult(map, user_token, request)
         IN [status |-> r.status, records |-> r.table]

\* The records after the Put of `first` and then the Put of `second`.
OneAfterTheOther(map, first, second) ==
    PutResult(PutResult(map, first.user_token, first.request).records,
              second.user_token, second.request).records

BothDone == \A c \in Connections : txn[c].pc = "done"

\* Both Puts are conditional on the same key at the same version, or both
\* carry the same global_version.
Contend(r1, r2) ==
    \/ \E i \in 1..Len(r1.transaction_items), j \in 1..Len(r2.transaction_items) :
           /\ r1.transaction_items[i].key = r2.transaction_items[j].key
           /\ r1.transaction_items[i].version = r2.transaction_items[j].version
           /\ r1.transaction_items[i].version >= 0
    \/ /\ IsSome(r1.global_version)
       /\ r1.global_version = r2.global_version

\* C8: of two Puts in flight together that are conditional on the same key
\* at the same version, or carry the same global_version, at most one
\* succeeds and then the other returns Conflict; the records they leave are
\* those of the two Puts handled one after the other in some order; and the
\* in-memory backend never has two Puts between lock and unlock.
C8_ConcurrentPutsSerialize ==
    /\ ~(InCriticalSection(1) /\ InCriticalSection(2))
    /\ (BothDone /\ Contend(txn[1].request, txn[2].request)) =>
           /\ ~(txn[1].status = OkStatus /\ txn[2].status = OkStatus)
           /\ txn[1].status = OkStatus => txn[2].status = ConflictError
           /\ txn[2].status = OkStatus => txn[1].status = ConflictError
           /\ Records \in {OneAfterTheOther(prev, txn[1], txn[2]),
                           OneAfterTheOther(prev, txn[2], txn[1])}

---------------------------------------------------------------------------
(* A first-page List next to Puts that carry a global_version.             *)

\* The Puts next to the List: a global_version and at most one item.
ListPutRequests ==
    {[store_id |-> sid, transaction_items |-> items, delete_items |-> << >>,
      global_version |-> Some(g)] :
        sid \in StoreIds, items \in {<< >>, <<KeyValue(KeyA, <<120>>, -1)>>},
        g \in -1..I64_MAX}

FirstPageRequests ==
    {[store_id |-> sid, key_prefix |-> None, page_size |-> ps, page_token |-> None] :
        sid \in StoreIds, ps \in PageSizes}

PutBegin ==
    \E u \in UserTokens, r \in ListPutRequests : MemLock(1, u, r) \/ PgBegin(1, u, r)

\* The Put's response has left; the connection takes the next Put.
PutEnd ==
    /\ txn[1].pc = "done"
    /\ txn' = [txn EXCEPT ![1] = IdleTxn]
    /\ UNCHANGED <<config, database, backend, store, vss_db, req, resp, prev, pager, lister>>

\* InMemoryBackendImpl::list_key_versions: the global version and the keys
\* are read under one lock of the store.
MemListLocked(user_token, request) ==
    /\ backend = InMemory
    /\ lister = IdleLister
    /\ MutexFree
    /\ lister' = [pc |-> "done",
                  resp |-> MemListResult(store, user_token, request),
                  sentinel |-> get_current_global_version(store, user_token,
                                                          request.store_id)]
    /\ UNCHANGED <<config, database, backend, store, vss_db, req, resp, prev, pager, txn>>

\* PostgresBackend::list_key_versions: self.get of GLOBAL_VERSION_KEY
PgListReadGlobalVersion(user_token, request) ==
    /\ backend = Postgres
    /\ lister = IdleLister
    /\ lister' = [pc |-> "keys", user_token |-> user_token, request |-> request,
                  global_version |-> PgListGlobalVersion(vss_db, user_token, request)]
    /\ UNCHANGED <<config, database, backend, store, vss_db, req, resp, prev, pager, txn>>

\* PostgresBackend::list_key_versions: the SELECT, on what is committed at
\* that moment, and the response.
PgListReadKeys ==
    /\ lister.pc = "keys"
    /\ lister' = [pc |-> "done",
                  resp |-> PgListPage(vss_db, lister.user_token, lister.request,
                                      lister.global_version),
                  sentinel |-> PgGetResult(vss_db, lister.user_token,
                                  [store_id |-> lister.request.store_id,
                                   key |-> GLOBAL_VERSION_KEY]).value.version]
    /\ UNCHANGED <<config, database, backend, store, vss_db, req, resp, prev, pager, txn>>

ListBegin ==
    \E u \in UserTokens, r \in FirstPageRequests :
        MemListLocked(u, r) \/ PgListReadGlobalVersion(u, r)

\* The List's response has left.
ListEnd ==
    /\ lister.pc = "done"
    /\ lister' = IdleLister
    /\ UNCHANGED <<config, database, backend, store, vss_db, req, resp, prev, pager, txn>>

NextList ==
    \/ PutBegin \/ PutStep \/ PutEnd
    \/ ListBegin \/ PgListReadKeys \/ ListEnd

SpecList == Init /\ [][NextList]_vars

\* C10: the global_version of a first-page List response is never greater
\* than the sentinel's version at the moment the key_versions are read.
C10_GlobalVersionReadFirst ==
    lister.pc = "done" =>
        Unwrap(lister.resp.global_version) <= lister.sentinel

---------------------------------------------------------------------------
(* A client paging through list_key_versions.  Puts fill the store while   *)
(* no listing is under way; from the first page to the last the store is   *)
(* left alone.                                                             *)

KeyAB == <<97, 98>>
PagingKeys == {KeyA, KeyAB, KeyZ}

\* The Puts that fill the store: one non-conditional item, with or without
\* the first global_version.
PagingPutRequests ==
    {[store_id |-> sid, transaction_items |-> <<KeyValue(k, EmptyStr, -1)>>,
      delete_items |-> << >>, global_version |-> g] :
        sid \in StoreIds, k \in PagingKeys, g \in {None, Some(0)}}

PagingPut ==
    /\ pager = IdlePager
    /\ \E u \in UserTokens, r \in PagingPutRequests :
           \/ /\ backend = InMemory
              /\ store' = MemPutResult(store, u, r).map
              /\ UNCHANGED vss_db
           \/ /\ backend = Postgres
              /\ vss_db' = PgPutResult(vss_db, u, r).table
              /\ UNCHANGED store
    /\ UNCHANGED <<config, database, backend, req, resp, prev, pager, txn, lister>>

ListResult(user_token, request) ==
    IF backend = InMemory THEN MemListResult(store, user_token, request)
    ELSE PgListResult(vss_db, user_token, request)

\* The client's state after a page: the keys obtained so far and the token
\* to send next; an empty next_page_token ends the listing.
AfterPage(user_token, request, seen) ==
    LET page == ListResult(user_token, request)
    IN IF page.status # OkStatus
       THEN [state |-> "failed", user_token |-> user_token, request |-> request,
             seen |-> seen]
       ELSE [state |-> IF UnwrapOr(page.next_page_token, EmptyStr) = EmptyStr
                       THEN "done" ELSE "paging",
             user_token |-> user_token,
             request |-> [request EXCEPT !.page_token = page.next_page_token],
             seen |-> seen \o [i \in 1..Len(page.key_versions) |->
                                  page.key_versions[i].key]]

\* The first List: no page_token.
FirstPage ==
    /\ pager = IdlePager
    /\ \E u \in UserTokens, sid \in StoreIds, kp \in KeyPrefixes, ps \in PageSizes :
           pager' = AfterPage(u, [store_id |-> sid, key_prefix |-> kp,
                                  page_size |-> ps, page_token |-> None], << >>)
    /\ UNCHANGED <<config, database, backend, store, vss_db, req, resp, prev, txn, lister>>

\* The next List: the same request with the returned next_page_token.
NextPage ==
    /\ pager # IdlePager
    /\ pager.state = "paging"
    /\ pager' = AfterPage(pager.user_token, pager.request, pager.seen)
    /\ UNCHANGED <<config, database, backend, store, vss_db, req, resp, prev, txn, lister>>

\* The client is done with the listing.
EndListing ==
    /\ pager # IdlePager
    /\ pager.state # "paging"
    /\ pager' = IdlePager
    /\ UNCHANGED <<config, database, backend, store, vss_db, req, resp, prev, txn, lister>>

NextPaging == PagingPut \/ FirstPage \/ NextPage \/ EndListing

SpecPaging == Init /\ [][NextPaging]_vars

\* The stored keys of the listed (user_token, store_id) that start with
\* key_prefix, other than global_version.
MatchingKeys ==
    {id[3] : id \in {i \in Identities(Records) :
                        /\ i[1] = pager.user_token
                        /\ i[2] = pager.request.store_id
                        /\ StartsWith(i[3], UnwrapOr(pager.request.key_prefix, EmptyStr))
                        /\ i[3] # GLOBAL_VERSION_KEY}}

\* C9: when a client that followed next_page_token from a List without
\* page_token receives an empty next_page_token, with page_size absent or
\* >= 1 and the store unchanged meanwhile, it has obtained every stored key
\* that starts with key_prefix, other than global_version, exactly once.
C9_PaginationEnumeratesOnce ==
    (pager # IdlePager /\ pager.state = "done") =>
        /\ {pager.seen[i] : i \in 1..Len(pager.seen)} = MatchingKeys
        /\ Len(pager.seen) = Cardinality(MatchingKeys)

---------------------------------------------------------------------------
(* C11 to C14 - the List response.                                         *)

ListOk == req.op = "list" /\ resp.status = OkStatus

\* C11: a List response carries global_version exactly when the request has
\* no page_token: without page_token it is the version Get(global_version)
\* returns (0 when there is no sentinel record), and with a page_token,
\* whatever its content, it is absent.
C11_GlobalVersionOnFirstPageOnly ==
    ListOk =>
        IF req.request.page_token = None
        THEN resp.global_version = Some(GlobalVersionBefore)
        ELSE resp.global_version = None

\* C12: no List response, whatever key_prefix, page_size and page_token the
\* request has and whatever the store holds, has an entry whose key is
\* global_version.
C12_SentinelNeverListed ==
    ListOk =>
        \A i \in 1..Len(resp.key_versions) :
            resp.key_versions[i].key # GLOBAL_VERSION_KEY

\* A first-page List with key_prefix "g" answered with no key although the
\* store holds the sentinel record.
C12_Witness ==
    /\ ListOk
    /\ IsSome(Before(GLOBAL_VERSION_KEY))
    /\ req.request.key_prefix = Some(<<103>>)
    /\ req.request.page_token = None
    /\ resp.key_versions = << >>

\* C13: every List response holds at most 100 key_versions, and at most
\* page_size key_versions when the request gives a page_size, for every
\* page_size of the i32 range; a page_size above 100 gets the response of
\* page_size = 100.
C13_PageSizeCapped ==
    ListOk =>
        /\ Len(resp.key_versions) <= LIST_KEY_VERSIONS_MAX_PAGE_SIZE
        /\ IsSome(req.request.page_size) =>
               Len(resp.key_versions) <= Unwrap(req.request.page_size)
        /\ (IsSome(req.request.page_size)
            /\ Unwrap(req.request.page_size) > LIST_KEY_VERSIONS_MAX_PAGE_SIZE) =>
               resp = ListResult(req.user_token,
                          [req.request EXCEPT
                              !.page_size = Some(LIST_KEY_VERSIONS_MAX_PAGE_SIZE)])

\* C14: every key of a List response starts with the request's key_prefix
\* read as a literal string (no prefix and the empty prefix match every
\* key), for every prefix and every page_token.
C14_KeysStartWithPrefix ==
    ListOk =>
        \A i \in 1..Len(resp.key_versions) :
            StartsWith(resp.key_versions[i].key,
                       UnwrapOr(req.request.key_prefix, EmptyStr))

---------------------------------------------------------------------------
(* C15 - Get.                                                              *)

\* C15: Get of a key that has a record returns the record's key, value and
\* version; Get of a key without a record fails with NoSuchKey, except Get of
\* global_version, which returns (global_version, empty value, version 0).
C15_GetReturnsRecord ==
    req.op = "get" =>
        LET key == req.request.key
        IN IF IsSome(Before(key))
           THEN resp = [status |-> OkStatus,
                        value |-> KeyValue(key, Unwrap(Before(key)).value,
                                           Unwrap(Before(key)).version)]
           ELSE IF key = GLOBAL_VERSION_KEY
           THEN resp = [status |-> OkStatus,
                        value |-> KeyValue(GLOBAL_VERSION_KEY, EmptyStr, 0)]
           ELSE resp = [status |-> NoSuchKeyError]

---------------------------------------------------------------------------
(* C16, C17 - the standalone Delete.                                       *)

IsDelete == req.op = "delete"
TheDeleted == Unwrap(req.request.key_value)

\* The outcome of handling the DeleteObjectRequest `request` on `map`.
DeleteResult(map, user_token, request) ==
    IF backend = InMemory
    THEN LET r == MemDeleteResult(map, user_token, request)
         IN [status |-> r.status, records |-> r.map]
    ELSE LET r == PgDeleteResult(map, user_token, request)
         IN [status |-> r.status, records |-> r.table]

\* The PutObjectRequest whose only content is the delete_items entry `item`.
OneDeletePut(store_id, item) ==
    [store_id |-> store_id, global_version |-> None,
     transaction_items |-> << >>, delete_items |-> <<item>>]

\* C16: a standalone Delete returns success, for every version in the
\* request; it leaves every record as it was when its key has no record; and
\* the same Delete issued again right after it succeeds and changes nothing.
C16_DeleteIdempotent ==
    IsDelete =>
        /\ resp.status = OkStatus
        /\ Before(TheDeleted.key) = None => Records = prev
        /\ DeleteResult(Records, req.user_token, req.request) =
               [status |-> OkStatus, records |-> Records]

\* A Delete at version 1 of a key without a record succeeded and left the
\* store, which holds another record, as it was.
C16_Witness ==
    /\ IsDelete
    /\ TheDeleted.version = 1
    /\ Before(TheDeleted.key) = None
    /\ prev # EmptyMap
    /\ resp.status = OkStatus
    /\ Records = prev

\* C17: a standalone Delete (k, v), v >= 0, of a key that has a record
\* removes the record when its stored version is v; when the stored version
\* differs from v the record keeps its value and version and the Delete
\* fails with Conflict; both as the Put of the single delete_items entry
\* (k, v) does.
C17_ConditionalDelete ==
    (IsDelete /\ TheDeleted.version >= 0 /\ IsSome(Before(TheDeleted.key))) =>
        /\ IF Unwrap(Before(TheDeleted.key)).version = TheDeleted.version
           THEN resp.status = OkStatus /\ After(TheDeleted.key) = None
           ELSE /\ resp.status = ConflictError
                /\ After(TheDeleted.key) = Before(TheDeleted.key)
        /\ [status |-> resp.status, records |-> Records] =
               PutResult(prev, req.user_token,
                         OneDeletePut(req.request.store_id, TheDeleted))

---------------------------------------------------------------------------
(* C18, C19, C20 - delete_items and repeated keys in a Put.                *)

\* C18: in a Put of distinct keys, a delete_items entry (k, v), v >= 0,
\* makes the Put fail with Conflict and change no record when k has no
\* record or k's stored version differs from v; when the stored version is v
\* and no other check of the request fails, the Put succeeds and k has no
\* record afterwards.
C18_ConditionalDeleteInPut ==
    (IsPut /\ DistinctKeys(req.request)) =>
        \A i \in 1..Len(req.request.delete_items) :
            LET item == req.request.delete_items[i]
            IN item.version >= 0 =>
                   /\ VersionMismatch(item.key, item.version) =>
                          (resp.status = ConflictError /\ Records = prev)
                   /\ ~SomeCheckFails =>
                          (resp.status = OkStatus /\ After(item.key) = None)

\* C19: in a Put of distinct keys, a delete_items entry (k, -1) never makes
\* the Put fail: when no check of the request fails the Put succeeds,
\* whether or not k has a record, and after a successful Put k has no
\* record.
C19_NonConditionalDeleteInPut ==
    (IsPut /\ DistinctKeys(req.request)) =>
        \A i \in 1..Len(req.request.delete_items) :
            LET item == req.request.delete_items[i]
            IN item.version = -1 =>
                   /\ ~SomeCheckFails => resp.status = OkStatus
                   /\ resp.status = OkStatus => After(item.key) = None

\* How many entries of transaction_items and delete_items name `key`.
ItemOccurrences(request, key) ==
    Cardinality({i \in 1..Len(request.transaction_items) :
                    request.transaction_items[i].key = key})
    + Cardinality({i \in 1..Len(request.delete_items) :
                    request.delete_items[i].key = key})

\* C20: a Put in which one key is named by more than one entry of
\* transaction_items and delete_items fails with Conflict and leaves every
\* record as it was, whatever the versions of the entries.
C20_DuplicateKeysConflict ==
    (IsPut /\ \E k \in Keys : ItemOccurrences(req.request, k) > 1) =>
        (resp.status = ConflictError /\ Records = prev)

---------------------------------------------------------------------------
(* C22, C23, C24 - the stored versions and the sentinel record.            *)

\* C22: in every state reached by Puts and Deletes, whatever versions the
\* requests name (those below -1 included), every stored record, the
\* sentinel included, has a version of at least 1.
C22_StoredVersionsPositive ==
    /\ \A sk \in DOMAIN store : store[sk].version >= 1
    /\ \A pk \in DOMAIN vss_db : vss_db[pk].version >= 1

\* A Put whose only item names a version below -1 was answered while the
\* store holds a record at the largest version.
C22_Witness ==
    /\ SingleItemPut
    /\ TheItem.version < -1
    /\ resp.status = ConflictError
    /\ \E k \in Keys : /\ IsSome(After(k))
                       /\ Unwrap(After(k)).version = I64_MAX

\* C23: across Get, Put, Delete and List requests on one (user_token,
\* store_id), the version Get(global_version) returns after a request is
\* never below the version it returned before the request.
C23_GlobalVersionMonotonic ==
    req # NoRequest => GlobalVersionAfter >= GlobalVersionBefore

\* C24: the record stored under global_version, when there is one, has an
\* empty value, and Get(global_version) returns an empty value, whatever
\* requests came before.
C24_SentinelValueEmpty ==
    \A u \in UserTokens, sid \in StoreIds :
        /\ IsSome(Stored(Records, u, sid, GLOBAL_VERSION_KEY)) =>
               Unwrap(Stored(Records, u, sid, GLOBAL_VERSION_KEY)).value = EmptyStr
        /\ GetResult(Records, u, sid, GLOBAL_VERSION_KEY).value.value = EmptyStr

---------------------------------------------------------------------------
(* Puts at the item-count limit: requests of one item less than the limit, *)
(* of exactly the limit and of one item more, on keys "1", "2", ...        *)

BulkKey(i) == UsizeToString(i)

\* A request of t transaction_items at version v followed by d delete_items
\* at version w, all on distinct keys.
BulkPutRequest(store_id, t, v, d, w) ==
    [store_id |-> store_id, global_version |-> None,
     transaction_items |-> [i \in 1..t |-> KeyValue(BulkKey(i), EmptyStr, v)],
     delete_items |-> [i \in 1..d |-> KeyValue(BulkKey(t + i), EmptyStr, w)]]

BulkPutRequests ==
    UNION {{BulkPutRequest(sid, t, v, n - t, w) :
               sid \in StoreIds, t \in 0..n, v \in {-1, 0, 1}, w \in {-1, 1}} :
           n \in (MAX_PUT_REQUEST_ITEM_COUNT - 1)..(MAX_PUT_REQUEST_ITEM_COUNT + 1)}

BulkPut ==
    /\ req = NoRequest
    /\ \E u \in UserTokens, r \in BulkPutRequests : MemPut(u, r) \/ PgPut(u, r)

NextBulk == BulkPut \/ Respond

SpecBulk == Init /\ [][NextBulk]_vars

\* The number of items of the last Put.
ItemCount == Len(req.request.transaction_items) + Len(req.request.delete_items)

\* The items of the last Put name pairwise distinct keys.
AllKeysDistinct ==
    LET keys == [i \in 1..Len(req.request.transaction_items) |->
                    req.request.transaction_items[i].key]
                \o [i \in 1..Len(req.request.delete_items) |->
                       req.request.delete_items[i].key]
    IN \A i, j \in 1..Len(keys) : i # j => keys[i] # keys[j]

\* Every item of the last Put is valid by itself: the Put of that item
\* alone succeeds on the records the request found.
EachItemValid ==
    /\ \A i \in 1..Len(req.request.transaction_items) :
           PutResult(prev, req.user_token,
                     [store_id |-> req.request.store_id, global_version |-> None,
                      transaction_items |-> <<req.request.transaction_items[i]>>,
                      delete_items |-> << >>]).status = OkStatus
    /\ \A i \in 1..Len(req.request.delete_items) :
           PutResult(prev, req.user_token,
                     OneDeletePut(req.request.store_id,
                                  req.request.delete_items[i])).status = OkStatus

\* Every item of the last Put has had its effect.
AllApplied ==
    /\ \A i \in 1..Len(req.request.transaction_items) :
           LET item == req.request.transaction_items[i]
           IN After(item.key) =
                  Some([value |-> item.value,
                        version |-> IF item.version \in {-1, 0} THEN 1
                                    ELSE SaturatingInc(item.version)])
    /\ \A i \in 1..Len(req.request.delete_items) :
           After(req.request.delete_items[i].key) = None

\* C21: a Put of more items than the limit returns InvalidRequest, whether
\* or not its items would pass validation, and changes no record; a Put of
\* exactly as many distinct, individually valid items as the limit succeeds
\* and all of them are applied.
C21_ItemCountLimit ==
    IsPut =>
        /\ ItemCount > MAX_PUT_REQUEST_ITEM_COUNT =>
               (resp.status = InvalidRequestError /\ Records = prev)
        /\ (ItemCount = MAX_PUT_REQUEST_ITEM_COUNT /\ AllKeysDistinct /\ EachItemValid) =>
               (resp.status = OkStatus /\ AllApplied)

\* A Put of exactly the limit, with conditional updates and a conditional
\* delete among its items, succeeded and changed the records.
C21_Witness ==
    /\ IsPut
    /\ ItemCount = MAX_PUT_REQUEST_ITEM_COUNT
    /\ Len(req.request.delete_items) = 1
    /\ req.request.transaction_items[1].version = 1
    /\ req.request.delete_items[1].version = 1
    /\ resp.status = OkStatus
    /\ AllApplied
    /\ Records # prev

---------------------------------------------------------------------------
(* Namespaces: requests of several (user_token, store_id) pairs whose      *)
(* tokens, store ids and keys are arbitrary non-empty strings, the         *)
(* character '#' included.                                                 *)

\* "u", "u#s"
TokenU == <<117>>
TokenUS == <<117, 35, 115>>
\* "s", "s#t"
StoreS == <<115>>
StoreST == <<115, 35, 116>>
\* "k", "t#k", "s#k"
NsKeys == {<<107>>, <<116, 35, 107>>, <<115, 35, 107>>}

\* The pairs <<user_token, store_id>> that send requests.
NsPairs == {<<TokenU, StoreS>>, <<TokenU, StoreST>>, <<TokenUS, StoreS>>}

\* The value the clients of a pair write: user_token "/" store_id, a
\* different value for each pair.
NsValue(pair) == pair[1] \o <<47>> \o pair[2]

NsGetRequest(pair, k) == [store_id |-> pair[2], key |-> k]
NsPutRequest(pair, k, v) ==
    [store_id |-> pair[2], global_version |-> None,
     transaction_items |-> <<KeyValue(k, NsValue(pair), v)>>, delete_items |-> << >>]
NsDeleteRequest(pair, k) ==
    [store_id |-> pair[2], key_value |-> Some(KeyValue(k, EmptyStr, -1))]
NsListRequest(pair) ==
    [store_id |-> pair[2], key_prefix |-> None, page_size |-> None, page_token |-> None]

NsGet ==
    /\ req = NoRequest
    /\ \E pair \in NsPairs, k \in NsKeys :
           \/ MemGet(pair[1], NsGetRequest(pair, k))
           \/ PgGet(pair[1], NsGetRequest(pair, k))

NsPut ==
    /\ req = NoRequest
    /\ \E pair \in NsPairs, k \in NsKeys, v \in {-1, 0} :
           \/ MemPut(pair[1], NsPutRequest(pair, k, v))
           \/ PgPut(pair[1], NsPutRequest(pair, k, v))

NsDelete ==
    /\ req = NoRequest
    /\ \E pair \in NsPairs, k \in NsKeys :
           \/ MemDelete(pair[1], NsDeleteRequest(pair, k))
           \/ PgDelete(pair[1], NsDeleteRequest(pair, k))

NsList ==
    /\ req = NoRequest
    /\ \E pair \in NsPairs :
           \/ MemList(pair[1], NsListRequest(pair))
           \/ PgList(pair[1], NsListRequest(pair))

NextNamespaces == NsGet \/ NsPut \/ NsDelete \/ NsList \/ Respond

SpecNamespaces == Init /\ [][NextNamespaces]_vars

\* What the clients of a pair can see of `map`: the response to a Get of
\* every key and the response to a List of the whole store.
NsView(map, pair) ==
    [get |-> [k \in NsKeys |-> GetResult(map, pair[1], pair[2], k)],
     list |-> IF backend = InMemory
              THEN MemListResult(map, pair[1], NsListRequest(pair))
              ELSE PgListResult(map, pair[1], NsListRequest(pair))]

\* C25: namespaces are isolated.  A request issued under one pair
\* (user_token, store_id) leaves what Get and List return under every other
\* pair as it was: it creates, modifies and removes no record that another
\* pair reads or lists, so no pair is returned a record written under
\* another.
C25_NamespacesIsolated ==
    req # NoRequest =>
        \A pair \in NsPairs :
            pair # <<req.user_token, req.request.store_id>> =>
                NsView(Records, pair) = NsView(prev, pair)

---------------------------------------------------------------------------
(* The two backends side by side: one sequence of requests is applied to   *)
(* an InMemoryBackendImpl and to a PostgresBackend, both empty at first    *)
(* (the shared test suite of kv_store_tests.rs runs against either).       *)

BothBackends == "InMemoryBackendImpl and PostgresBackend"

InitBoth ==
    /\ config = VssServiceConfig_default
    /\ database = MigratedDatabase
    /\ backend = BothBackends
    /\ store = EmptyMap
    /\ vss_db = EmptyMap
    /\ req = NoRequest
    /\ resp = NoResponse
    /\ prev = EmptyMap
    /\ pager = IdlePager
    /\ txn = IdleTxns
    /\ lister = IdleLister

\* "x"
BothValue == <<120>>

\* Puts of one transaction item or one delete item, with or without a
\* global_version.
BothPutRequests ==
    {[store_id |-> sid, global_version |-> gv,
      transaction_items |-> <<KeyValue(k, BothValue, v)>>, delete_items |-> << >>] :
        sid \in StoreIds, gv \in {None} \cup {Some(g) : g \in Versions},
        k \in Keys, v \in Versions}
    \cup
    {[store_id |-> sid, global_version |-> gv,
      transaction_items |-> << >>, delete_items |-> <<KeyValue(k, EmptyStr, v)>>] :
        sid \in StoreIds, gv \in {None} \cup {Some(g) : g \in Versions},
        k \in Keys, v \in Versions}

\* The two responses to one request.
BothResponses(mem, pg) == [status |-> "both", mem |-> mem, pg |-> pg]

BothGet ==
    /\ req = NoRequest
    /\ \E u \in UserTokens, r \in GetObjectRequests :
           /\ req' = Request("get", u, r)
           /\ resp' = BothResponses(MemGetResult(store, u, r), PgGetResult(vss_db, u, r))
    /\ UNCHANGED <<config, database, backend, store, vss_db, prev, pager, txn, lister>>

BothPut ==
    /\ req = NoRequest
    /\ \E u \in UserTokens, r \in BothPutRequests :
           LET m == MemPutResult(store, u, r)
               p == PgPutResult(vss_db, u, r)
           IN /\ req' = Request("put", u, r)
              /\ store' = m.map
              /\ vss_db' = p.table
              /\ resp' = BothResponses([status |-> m.status], [status |-> p.status])
    /\ UNCHANGED <<config, database, backend, prev, pager, txn, lister>>

BothDelete ==
    /\ req = NoRequest
    /\ \E u \in UserTokens, r \in DeleteObjectRequests :
           LET m == MemDeleteResult(store, u, r)
               p == PgDeleteResult(vss_db, u, r)
           IN /\ req' = Request("delete", u, r)
              /\ store' = m.map
              /\ vss_db' = p.table
              /\ resp' = BothResponses([status |-> m.status], [status |-> p.status])
    /\ UNCHANGED <<config, database, backend, prev, pager, txn, lister>>

NextBoth == BothGet \/ BothPut \/ BothDelete \/ Respond

SpecBoth == InitBoth /\ [][NextBoth]_vars

\* C26: the two backends are interchangeable.  Whatever requests were
\* applied to both before, a Get, Put or standalone Delete returns the same
\* outcome (success or the same error kind) from both, and a Get that
\* succeeds returns the same value and version from both.
C26_BackendsInterchangeable ==
    req # NoRequest =>
        /\ resp.mem.status = resp.pg.status
        /\ (req.op = "get" /\ resp.mem.status = OkStatus /\ resp.pg.status = OkStatus) =>
               /\ resp.mem.value.value = resp.pg.value.value
               /\ resp.mem.value.version = resp.pg.value.version

---------------------------------------------------------------------------
(* The HTTP router (vss_service.rs): VssService::call, handle_request and  *)
(* build_error_response in front of the store.                             *)

\* "/vss"
BASE_PATH_PREFIX == <<47, 118, 115, 115>>
\* "/getObject", "/putObjects", "/deleteObject", "/listKeyVersions"
GetObjectPath == <<47, 103, 101, 116, 79, 98, 106, 101, 99, 116>>
PutObjectsPath == <<47, 112, 117, 116, 79, 98, 106, 101, 99, 116, 115>>
DeleteObjectPath == <<47, 100, 101, 108, 101, 116, 101, 79, 98, 106, 101, 99, 116>>
ListKeyVersionsPath == <<47, 108, 105, 115, 116, 75, 101, 121, 86, 101, 114, 115, 105, 111, 110, 115>>

\* str::strip_prefix(..).unwrap_or_default(): the rest of the path after
\* the prefix, the empty string when the path does not start with it.
strip_prefix(path, prefix) ==
    IF StartsWith(path, prefix) THEN SubSeq(path, Len(prefix) + 1, Len(path))
    ELSE EmptyStr

\* VssError: its kind with its message.
VssError(kind, message) == [kind |-> kind, message |-> message]
AuthError == "AuthError"

\* An HTTP response: status code, body, and what handling the request
\* invoked on the way (the authorizer, the body collector, the decoder,
\* the store with the user_token and request it was called with).
HttpResponse(status, body, calls, store_call, error, map) ==
    [status |-> status, body |-> body, calls |-> calls,
     store_call |-> store_call, error |-> error, map |-> map]

PlainText(text) == [kind |-> "text", text |-> text]
ErrorResponse(error_code, message) ==
    [kind |-> "ErrorResponse", error_code |-> error_code, message |-> message]
Protobuf(response) == [kind |-> "protobuf", response |-> response]

\* build_error_response with the message of every kind passed on.
error_response_with_message(e) ==
    IF e.kind = NoSuchKeyError
    THEN [status |-> 404, body |-> ErrorResponse("NO_SUCH_KEY_EXCEPTION", e.message)]
    ELSE IF e.kind = ConflictError
    THEN [status |-> 409, body |-> ErrorResponse("CONFLICT_EXCEPTION", e.message)]
    ELSE IF e.kind = InvalidRequestError
    THEN [status |-> 400, body |-> ErrorResponse("INVALID_REQUEST_EXCEPTION", e.message)]
    ELSE IF e.kind = AuthError
    THEN [status |-> 401, body |-> ErrorResponse("AUTH_EXCEPTION", e.message)]
    ELSE [status |-> 500, body |-> ErrorResponse("INTERNAL_SERVER_EXCEPTION", e.message)]

\* build_error_response: status code and ErrorResponse of a VssError.
build_error_response(e) ==
    IF e.kind = NoSuchKeyError
    THEN [status |-> 404, body |-> ErrorResponse("NO_SUCH_KEY_EXCEPTION", e.message)]
    ELSE IF e.kind = ConflictError
    THEN [status |-> 409, body |-> ErrorResponse("CONFLICT_EXCEPTION", e.message)]
    ELSE IF e.kind = InvalidRequestError
    THEN [status |-> 400, body |-> ErrorResponse("INVALID_REQUEST_EXCEPTION", e.message)]
    ELSE IF e.kind = AuthError
    THEN [status |-> 401, body |-> ErrorResponse("AUTH_EXCEPTION", e.message)]
    ELSE [status |-> 500,
          body |-> ErrorResponse("INTERNAL_SERVER_EXCEPTION",
                                 "Unknown Server Error occurred.")]

\* Authorizer::verify on the request's headers: Ok(AuthResponse) with the
\* user_token of the credentials the headers carry, Err(AuthError) when
\* they carry none that the authorizer accepts.
verify(headers) ==
    IF IsSome(headers.credentials)
    THEN [ok |-> TRUE, user_token |-> Unwrap(headers.credentials)]
    ELSE [ok |-> FALSE, error |-> VssError(AuthError, "Unauthorized")]

\* T::default(): the message an empty body decodes to.
DefaultMessage(T) ==
    IF T = "get" THEN [store_id |-> EmptyStr, key |-> EmptyStr]
    ELSE IF T = "put"
    THEN [store_id |-> EmptyStr, global_version |-> None,
          transaction_items |-> << >>, delete_items |-> << >>]
    ELSE IF T = "delete" THEN [store_id |-> EmptyStr, key_value |-> None]
    ELSE [store_id |-> EmptyStr, key_prefix |-> None, page_size |-> None,
          page_token |-> None]

\* T::decode(bytes): Some(request) for Ok, None for Err.  A body is known
\* by its length and by the message its bytes encode, if any; no bytes at
\* all decode to the default message of every type.
decode(T, body) ==
    IF body.len = 0 THEN Some(DefaultMessage(T))
    ELSE IF IsSome(body.message) /\ Unwrap(body.message).type = T
    THEN Some(Unwrap(body.message).request)
    ELSE None

\* The message of the VssError a store operation returns.
Diagnostic == "diagnostic"

\* handle_get_object_request, handle_put_object_request,
\* handle_delete_object_request, handle_list_object_request: the KvStore
\* operation of the constructed backend for the request type T.
Handler(map, T, user_token, request) ==
    IF T = "get" THEN GetResult(map, user_token, request.store_id, request.key)
    ELSE IF T = "put" THEN PutResult(map, user_token, request)
    ELSE IF T = "delete" THEN DeleteResult(map, user_token, request)
    ELSE IF backend = InMemory THEN MemListResult(map, user_token, request)
    ELSE PgListResult(map, user_token, request)

\* The Result<R, VssError> of a store operation whose own result is r.  An
\* I/O failure of the Postgres connection (`fault`) ends the operations
\* that reach the pool with an io::Error, which becomes InternalServerError.
StoreOutcome(map, T, r, fault) ==
    IF backend = Postgres /\ IsSome(fault) /\ r.status # InvalidRequestError
    THEN [result |-> [status |-> InternalServerError],
          error |-> Some(VssError(InternalServerError, Unwrap(fault))),
          map |-> map]
    ELSE [result |-> IF T \in {"put", "delete"} THEN [status |-> r.status] ELSE r,
          error |-> IF r.status = OkStatus THEN None
                    ELSE Some(VssError(r.status, Diagnostic)),
          map |-> IF T \in {"put", "delete"} THEN r.records ELSE map]

StoreCall(map, T, user_token, request, fault) ==
    StoreOutcome(map, T, Handler(map, T, user_token, request), fault)

\* The response to an error e raised after `calls`.
ErrorReply(e, calls, store_call, map) ==
    HttpResponse(build_error_response(e).status, build_error_response(e).body,
                 calls, store_call, Some(e), map)

\* The match on the handler's result r: 200 with the encoded response for
\* Ok, build_error_response for Err.
HandlerReply(r, calls, store_call) ==
    IF IsSome(r.error)
    THEN ErrorReply(Unwrap(r.error), calls, store_call, r.map)
    ELSE HttpResponse(200, Protobuf(r.result), calls, store_call, None, r.map)

\* The record of a store call: the operation, the user_token and the
\* request it was called with.
StoreCalled(T, user_token, request) ==
    Some([op |-> T, user_token |-> user_token, request |-> request])

\* handle_request with the body collected before the authorizer is asked.
handle_request_collecting_first(map, http, maximum_request_body_size, T, fault) ==
    LET auth == verify(http.headers)
        message == decode(T, http.body)
    IN IF http.body.len > maximum_request_body_size
       THEN HttpResponse(413, PlainText("Request body too large"),
                         <<"collect">>, None, None, map)
       ELSE IF ~auth.ok
       THEN ErrorReply(auth.error, <<"collect", "verify">>, None, map)
       ELSE IF ~IsSome(message)
       THEN HttpResponse(400, PlainText("Error parsing request"),
                         <<"collect", "verify", "decode">>, None, None, map)
       ELSE HandlerReply(StoreCall(map, T, auth.user_token, Unwrap(message), fault),
                         <<"collect", "verify", "decode", "store">>,
                         StoreCalled(T, auth.user_token, Unwrap(message)))

\* handle_request with a body collected whatever its length.
handle_request_unlimited(map, http, maximum_request_body_size, T, fault) ==
    LET auth == verify(http.headers)
        message == decode(T, http.body)
    IN IF ~auth.ok
       THEN ErrorReply(auth.error, <<"verify">>, None, map)
       ELSE IF ~IsSome(message)
       THEN HttpResponse(400, PlainText("Error parsing request"),
                         <<"verify", "collect", "decode">>, None, None, map)
       ELSE HandlerReply(StoreCall(map, T, auth.user_token, Unwrap(message), fault),
                         <<"verify", "collect", "decode", "store">>,
                         StoreCalled(T, auth.user_token, Unwrap(message)))

\* handle_request: verify, then collect the body under the size limit,
\* then decode it as the path's request message, then call the store.
handle_request(map, http, maximum_request_body_size, T, fault) ==
    LET auth == verify(http.headers)
        message == decode(T, http.body)
    IN IF ~auth.ok
       THEN ErrorReply(auth.error, <<"verify">>, None, map)
       ELSE IF http.body.len > maximum_request_body_size
       THEN HttpResponse(413, PlainText("Request body too large"),
                         <<"verify", "collect">>, None, None, map)
       ELSE IF ~IsSome(message)
       THEN HttpResponse(400, PlainText("Error parsing request"),
                         <<"verify", "collect", "decode">>, None, None, map)
       ELSE HandlerReply(StoreCall(map, T, auth.user_token, Unwrap(message), fault),
                         <<"verify", "collect", "decode", "store">>,
                         StoreCalled(T, auth.user_token, Unwrap(message)))

\* VssService::call: the match on the path without its prefix.  The
\* request's method takes no part in it.
call(map, http, maximum_request_body_size, fault) ==
    LET prefix_stripped_path == strip_prefix(http.path, BASE_PATH_PREFIX)
    IN IF prefix_stripped_path = GetObjectPath
       THEN handle_request(map, http, maximum_request_body_size, "get", fault)
       ELSE IF prefix_stripped_path = PutObjectsPath
       THEN handle_request(map, http, maximum_request_body_size, "put", fault)
       ELSE IF prefix_stripped_path = DeleteObjectPath
       THEN handle_request(map, http, maximum_request_body_size, "delete", fault)
       ELSE IF prefix_stripped_path = ListKeyVersionsPath
       THEN handle_request(map, http, maximum_request_body_size, "list", fault)
       ELSE HttpResponse(400, PlainText("Invalid request path."), << >>,
                         None, None, map)

\* The requests the router is sent.  "u", "v": the users whose credentials
\* the authorizer accepts.
RouterUserTokens == {<<117>>, <<118>>}
Methods == {"POST", "GET"}

\* The paths that name an operation, and "/getObject", "/vss/getObject/",
\* "/vss", "/".
OperationPaths ==
    {BASE_PATH_PREFIX \o p :
        p \in {GetObjectPath, PutObjectsPath, DeleteObjectPath, ListKeyVersionsPath}}
Paths ==
    OperationPaths \cup {GetObjectPath, BASE_PATH_PREFIX \o GetObjectPath \o <<47>>,
                         BASE_PATH_PREFIX, <<47>>}

\* The messages a body may encode.
RouterMessages ==
    {[type |-> "get", request |-> [store_id |-> sid, key |-> KeyA]] : sid \in StoreIds}
    \cup {[type |-> "put",
           request |-> [store_id |-> sid, global_version |-> None,
                        transaction_items |-> <<KeyValue(KeyA, BothValue, v)>>,
                        delete_items |-> << >>]] : sid \in StoreIds, v \in {-1, 0, 1}}
    \cup {[type |-> "delete",
           request |-> [store_id |-> sid,
                        key_value |-> Some(KeyValue(KeyA, EmptyStr, -1))]] :
              sid \in StoreIds}
    \cup {[type |-> "list",
           request |-> [store_id |-> sid, key_prefix |-> None, page_size |-> None,
                        page_token |-> None]] : sid \in StoreIds}

\* A body of no bytes, and bodies of 1, 2 and MAXIMUM_REQUEST_BODY_SIZE + 1
\* bytes that encode one of the messages or none.
Bodies ==
    {[len |-> 0, message |-> None]}
    \cup {[len |-> n, message |-> m] :
             n \in {1, 2, MAXIMUM_REQUEST_BODY_SIZE + 1},
             m \in {None} \cup {Some(x) : x \in RouterMessages}}

HttpRequests ==
    {[method |-> method, path |-> path, headers |-> [credentials |-> cr], body |-> body] :
        method \in Methods, path \in Paths,
        cr \in {None} \cup {Some(u) : u \in RouterUserTokens}, body \in Bodies}

\* The io::Error of a connection that fails during a request, if one does.
Faults == {None, Some("Connection error: timed out"), Some("Query error: db error")}

\* The sizes VssServiceConfig::new is called with.
ConfigSizes == {0, 1, MAXIMUM_REQUEST_BODY_SIZE, MAXIMUM_REQUEST_BODY_SIZE + 1}

\* VssService::new with the default configuration or with one that
\* VssServiceConfig::new returned, over an empty store.
InitRouter ==
    /\ config \in {VssServiceConfig_default}
                  \cup {Unwrap(VssServiceConfig_new(n)) :
                           n \in {m \in ConfigSizes : IsSome(VssServiceConfig_new(m))}}
    /\ database = MigratedDatabase
    /\ backend \in {InMemory, Postgres}
    /\ store = EmptyMap
    /\ vss_db = EmptyMap
    /\ req = NoRequest
    /\ resp = NoResponse
    /\ prev = EmptyMap
    /\ pager = IdlePager
    /\ txn = IdleTxns
    /\ lister = IdleLister

\* The step of the service that answers `http` with the response r.
Answer(http, fault, r) ==
    /\ req' = [op |-> "http", http |-> http, fault |-> fault]
    /\ resp' = [status |-> r.status, body |-> r.body, calls |-> r.calls,
                store_call |-> r.store_call, error |-> r.error]
    /\ prev' = Records
    /\ store' = IF backend = InMemory THEN r.map ELSE store
    /\ vss_db' = IF backend = Postgres THEN r.map ELSE vss_db
    /\ UNCHANGED <<config, database, backend, pager, txn, lister>>

\* VssService::call on one request, from the match on the path to the
\* response.
Call ==
    /\ req = NoRequest
    /\ \E http \in HttpRequests,
          fault \in IF backend = Postgres THEN Faults ELSE {None} :
           Answer(http, fault,
                  call(Records, http, config.maximum_request_body_size, fault))

NextRouter == Call \/ Respond

SpecRouter == InitRouter /\ [][NextRouter]_vars

\* The last request's path names an operation.
Routed == req.http.path \in OperationPaths

\* The request message type of the last request's path.
PathType ==
    LET rest == strip_prefix(req.http.path, BASE_PATH_PREFIX)
    IN IF rest = GetObjectPath THEN "get"
       ELSE IF rest = PutObjectsPath THEN "put"
       ELSE IF rest = DeleteObjectPath THEN "delete"
       ELSE "list"

\* The outcome of the authorizer on the last request.
Verified == verify(req.http.headers)

\* C27: a request whose path is not exactly one of the four operation
\* paths, or whose method is not POST, gets 400 with the plain-text body
\* "Invalid request path.", and neither the authorizer nor the store is
\* invoked for it.
C27_InvalidPathOrMethod ==
    (req # NoRequest /\ (~Routed \/ req.http.method # "POST")) =>
        /\ resp.status = 400
        /\ resp.body = PlainText("Invalid request path.")
        /\ resp.calls = << >>
        /\ Records = prev

\* C28: every error kind has one fixed status and error code; the message
\* sent for InternalServer is one constant string whatever the internal
\* message was, a backend I/O failure is answered with 500, and a store
\* call that succeeds is answered with 200.
C28_ErrorMapping ==
    req # NoRequest =>
        /\ IsSome(resp.error) =>
               LET e == Unwrap(resp.error)
                   Mapped(status, code) ==
                       /\ resp.status = status
                       /\ resp.body.kind = "ErrorResponse"
                       /\ resp.body.error_code = code
               IN /\ e.kind = NoSuchKeyError => Mapped(404, "NO_SUCH_KEY_EXCEPTION")
                  /\ e.kind = ConflictError => Mapped(409, "CONFLICT_EXCEPTION")
                  /\ e.kind = InvalidRequestError => Mapped(400, "INVALID_REQUEST_EXCEPTION")
                  /\ e.kind = AuthError => Mapped(401, "AUTH_EXCEPTION")
                  /\ e.kind = InternalServerError =>
                         /\ Mapped(500, "INTERNAL_SERVER_EXCEPTION")
                         /\ resp.body.message = "Unknown Server Error occurred."
        /\ (IsSome(resp.store_call) /\ IsSome(req.fault)
              /\ (IsSome(resp.error) => Unwrap(resp.error).kind # InvalidRequestError)) =>
               resp.status = 500
        /\ (IsSome(resp.store_call) /\ ~IsSome(resp.error)) =>
               (resp.status = 200 /\ resp.body.kind = "protobuf")

\* A Postgres connection failed during a store call: the response is 500
\* and its message is not the io::Error's.
C28_Witness ==
    /\ req # NoRequest
    /\ IsSome(req.fault)
    /\ IsSome(resp.store_call)
    /\ IsSome(resp.error)
    /\ Unwrap(resp.error) = VssError(InternalServerError, Unwrap(req.fault))
    /\ resp.status = 500
    /\ resp.body.message # Unwrap(req.fault)

\* C29: when the authorizer rejects a request, the answer is 401 with
\* AUTH_EXCEPTION, the body is neither read nor decoded and the store is
\* neither called nor changed, whatever the body's size and content; a
\* store operation runs under the user_token the authorizer returned for
\* that request.
C29_AuthFirst ==
    (req # NoRequest /\ Routed) =>
        /\ ~Verified.ok =>
               /\ resp.status = 401
               /\ resp.body.kind = "ErrorResponse"
               /\ resp.body.error_code = "AUTH_EXCEPTION"
               /\ resp.calls = <<"verify">>
               /\ resp.store_call = None
               /\ Records = prev
        /\ IsSome(resp.store_call) =>
               /\ Verified.ok
               /\ Unwrap(resp.store_call).user_token = Verified.user_token
               /\ Records = StoreCall(prev, Unwrap(resp.store_call).op,
                                      Verified.user_token,
                                      Unwrap(resp.store_call).request, req.fault).map

\* A request without accepted credentials whose body is larger than the
\* configured cap and encodes a Put was answered 401.
C29_Witness ==
    /\ req # NoRequest
    /\ Routed
    /\ ~Verified.ok
    /\ req.http.body.len > config.maximum_request_body_size
    /\ IsSome(req.http.body.message)
    /\ PathType = "put"
    /\ resp.status = 401

\* C30: for an authenticated request a body larger than the configured cap
\* gets 413 with a plain-text body, and a body that does not decode as the
\* path's request message gets 400 with the body "Error parsing request";
\* in both cases the store is neither called nor changed.  The configured
\* cap never exceeds 1 GiB.
C30_BodyLimitAndDecode ==
    /\ config.maximum_request_body_size <= MAXIMUM_REQUEST_BODY_SIZE
    /\ (req # NoRequest /\ Routed /\ Verified.ok) =>
           /\ req.http.body.len > config.maximum_request_body_size =>
                  /\ resp.status = 413
                  /\ resp.body.kind = "text"
                  /\ resp.store_call = None
                  /\ Records = prev
           /\ (req.http.body.len <= config.maximum_request_body_size
                 /\ ~IsSome(decode(PathType, req.http.body))) =>
                  /\ resp.status = 400
                  /\ resp.body = PlainText("Error parsing request")
                  /\ resp.store_call = None
                  /\ Records = prev

\* An authenticated Put whose body is larger than a cap below 1 GiB was
\* answered 413 while the store held records.
C30_Witness ==
    /\ req # NoRequest
    /\ Routed
    /\ Verified.ok
    /\ PathType = "put"
    /\ IsSome(req.http.body.message)
    /\ config.maximum_request_body_size < req.http.body.len
    /\ req.http.body.len < MAXIMUM_REQUEST_BODY_SIZE
    /\ resp.status = 413
    /\ Records # EmptyMap

---------------------------------------------------------------------------
(* Schema migrations, one run after another: each start of the server runs *)
(* migrate_vss_database with the list compiled into it.                     *)

\* n copies of DUMMY_MIGRATION.
Dummies(n) == [i \in 1..n |-> DUMMY_MIGRATION]

\* The lists releases compile in: MIGRATIONS, then later additions.
MigrationLists == {MIGRATIONS \o Dummies(n) : n \in 0..MaxNewMigrations}

\* The database operations of the longest run.
MigrationOps == 1..(Len(MIGRATIONS) + MaxNewMigrations + 6)

MigrationFaults == {None} \cup {Some(k) : k \in MigrationOps}

\* The database before the first start: empty, or with a vss_db table its
\* operator created.
FreshDatabases == {EmptyDatabase, [EmptyDatabase EXCEPT !.tables = {"vss_db"}]}

InitMigrate ==
    /\ config = VssServiceConfig_default
    /\ database \in FreshDatabases
    /\ backend = Postgres
    /\ store = EmptyMap
    /\ vss_db = EmptyMap
    /\ req = NoRequest
    /\ resp = NoResponse
    /\ prev = EmptyMap
    /\ pager = IdlePager
    /\ txn = IdleTxns
    /\ lister = IdleLister

\* One run of migrate_vss_database; req, resp and prev keep the run's
\* list, its result and the database it started from.
Migrate ==
    \E migrations \in MigrationLists, fault \in MigrationFaults, commit_lost \in BOOLEAN :
        /\ database' = migrate_vss_database(database, migrations, fault, commit_lost).db
        /\ req' = [op |-> "migrate", migrations |-> migrations, fault |-> fault]
        /\ resp' = [migrate_vss_database(database, migrations, fault, commit_lost)
                       EXCEPT !.db = 0]
        /\ prev' = database
        /\ UNCHANGED <<config, backend, store, vss_db, pager, txn, lister>>

NextMigrate == Migrate

SpecMigrate == InitMigrate /\ [][NextMigrate]_vars

\* The stored schema version, 0 before the first migration.
SchemaVersion(db) == IF GetVersion(db).ok THEN GetVersion(db).db_version ELSE 0

\* The statements 0 .. n-1 in list order.
InOrder(n) == [i \in 1..n |-> i - 1]

\* C31: a successful run leaves the schema version equal to the length of
\* its list and every statement of the list executed exactly once, in list
\* order; when it started below that length it appended its starting
\* version to the upgrades log, and when it started at that length it
\* changed nothing.
C31_MigrationsAppliedOnce ==
    [][resp'.status = "Ok" =>
          /\ SchemaVersion(database') = Len(req'.migrations)
          /\ database'.executed = InOrder(Len(req'.migrations))
          /\ resp'.migration_start = SchemaVersion(database)
          /\ resp'.migration_start < Len(req'.migrations) =>
                 database'.upgrades = Append(database.upgrades, resp'.migration_start)
          /\ resp'.migration_start = Len(req'.migrations) => database' = database]_vars

\* Three successful upgrades in a row, as in new_migrations_increments_upgrades:
\* the log holds the three starting versions.
C31_Witness ==
    /\ req # NoRequest
    /\ resp.status = "Ok"
    /\ Len(database.upgrades) = 3
    /\ database.upgrades[1] = 0
    /\ database.upgrades[2] = Len(MIGRATIONS)
    /\ SchemaVersion(database) = Len(MIGRATIONS) + MaxNewMigrations

\* The result of the last run is the error of a failed migration statement,
\* log insert or version update.
StatementFailed(r) ==
    /\ r.status = "Err"
    /\ r.message \in {"Database migration failed",
                      "Failed to log database migration",
                      "Failed to update the version of the schema"}

\* C36: a run in which a migration statement, the log insert or the version
\* update fails returns an error and leaves the database as it was before
\* the run: tables, version row, upgrades log and executed statements.
C36_MigrationAtomic ==
    [][(\E migrations \in MigrationLists, fault \in MigrationFaults :
           /\ req' = [op |-> "migrate", migrations |-> migrations, fault |-> fault]
           /\ IsSome(fault)
           /\ fault[1] > 3
           /\ fault[1] < 6 + Len(migrations) - SchemaVersion(database)
           /\ SchemaVersion(database) < Len(migrations)) =>
          /\ StatementFailed(resp')
          /\ database' = database]_vars

\* The version update of an upgrade by two migrations failed after both
\* statements and the log insert had been executed, and the database is
\* the one the run found.
C36_Witness ==
    /\ req # NoRequest
    /\ StatementFailed(resp)
    /\ resp.message = "Failed to update the version of the schema"
    /\ SchemaVersion(prev) = Len(MIGRATIONS)
    /\ Len(req.migrations) >= Len(MIGRATIONS) + 2
    /\ database = prev

---------------------------------------------------------------------------
(* Schema migrations of two servers started on the same database: each run *)
(* reads the stored version on its connection, opens its transaction and   *)
(* sends its statements one at a time; Postgres (READ COMMITTED) makes a    *)
(* statement wait for the locks of the other open transaction.              *)

\* What an open transaction has changed and not committed.
NoChanges ==
    [tables |-> {}, rows |-> << >>, executed |-> << >>, upgrades |-> << >>,
     set_version |-> None]

\* The database a transaction with these changes sees, and the database its
\* commit leaves.
Merge(db, changes) ==
    LET rows == db.db_version \o changes.rows
    IN [tables |-> db.tables \cup changes.tables,
        db_version |-> IF IsSome(changes.set_version)
                       THEN [i \in 1..Len(rows) |-> changes.set_version[1]]
                       ELSE rows,
        upgrades |-> db.upgrades \o changes.upgrades,
        executed |-> db.executed \o changes.executed]

\* The changes of a transaction that sees `view` over the committed db.
Changes(db, view, set_version) ==
    [tables |-> view.tables \ db.tables,
     rows |-> SubSeq(view.db_version, Len(db.db_version) + 1, Len(view.db_version)),
     executed |-> SubSeq(view.executed, Len(db.executed) + 1, Len(view.executed)),
     upgrades |-> SubSeq(view.upgrades, Len(db.upgrades) + 1, Len(view.upgrades)),
     set_version |-> set_version]

MigrationRun(pc, migrations, migration_start, idx, changes, status, message) ==
    [op |-> "migrate", pc |-> pc, migrations |-> migrations,
     migration_start |-> migration_start, idx |-> idx, changes |-> changes,
     status |-> status, message |-> message]

\* A run that returned or panicked: its transaction is dropped.
Returned(run, status, message) ==
    [run EXCEPT !.pc = "done", !.changes = NoChanges, !.status = status,
                !.message = message]

Other(c) == CHOOSE o \in Connections : o # c

\* The other run's transaction is open.
OtherOpen(c) == txn[Other(c)].pc \in {"execute", "log", "update", "commit"}

\* The table a CREATE TABLE statement creates, "" for other statements.
CreatedTable(stmt) ==
    IF stmt = CreateVersionTable THEN "vss_db_version"
    ELSE IF stmt = CreateUpgradesTable THEN "vss_db_upgrades"
    ELSE IF stmt = CreateVssDbTable THEN "vss_db"
    ELSE ""

\* The statement waits: the other open transaction created the same table,
\* or updated the version row, and has not ended.
CreateWaits(c, stmt) ==
    OtherOpen(c) /\ CreatedTable(stmt) \in txn[Other(c)].changes.tables

UpdateWaits(c) ==
    OtherOpen(c) /\ IsSome(txn[Other(c)].changes.set_version)

InitMigrateRace ==
    /\ config = VssServiceConfig_default
    /\ database \in FreshDatabases
    /\ backend = Postgres
    /\ store = EmptyMap
    /\ vss_db = EmptyMap
    /\ req = NoRequest
    /\ resp = NoResponse
    /\ prev = database
    /\ pager = IdlePager
    /\ txn = IdleTxns
    /\ lister = IdleLister

\* pool.get, query_one(GET_VERSION_STMT), conn.transaction() and the two
\* comparisons of migration_start with the length of the list.
MigrateBegin(c) ==
    /\ txn[c] = IdleTxn
    /\ \E migrations \in MigrationLists :
          LET start == StartMigration(database, None)
              run == MigrationRun("execute", migrations,
                                  IF start.ok THEN start.migration_start ELSE 0,
                                  IF start.ok THEN start.migration_start ELSE 0,
                                  NoChanges, "none", "")
          IN txn' = [txn EXCEPT ![c] =
                 IF ~start.ok THEN Returned(run, "Err", start.message)
                 ELSE IF start.migration_start = Len(migrations)
                 THEN Returned(run, "Ok", "")
                 ELSE IF start.migration_start > Len(migrations)
                 THEN Returned(run, "panic", "We do not allow downgrades")
                 ELSE run]
    /\ UNCHANGED <<config, database, backend, store, vss_db, req, resp, prev, pager, lister>>

\* tx.execute(stmt) of the next migration.
MigrateExecute(c) ==
    /\ txn[c].pc = "execute"
    /\ LET run == txn[c]
           stmt == run.migrations[run.idx + 1]
           r == ExecuteMigration(Merge(database, run.changes), stmt, run.idx)
       IN /\ ~CreateWaits(c, stmt)
          /\ txn' = [txn EXCEPT ![c] =
                 IF ~r.ok THEN Returned(run, "Err", "Database migration failed")
                 ELSE [run EXCEPT !.changes = Changes(database, r.db, None),
                                  !.idx = @ + 1,
                                  !.pc = IF run.idx + 1 = Len(run.migrations)
                                         THEN "log" ELSE "execute"]]
    /\ UNCHANGED <<config, database, backend, store, vss_db, req, resp, prev, pager, lister>>

\* tx.execute(LOG_MIGRATION_STMT, migration_start) and its assert.
MigrateLog(c) ==
    /\ txn[c].pc = "log"
    /\ LET run == txn[c]
           r == LogMigration(Merge(database, run.changes), run.migration_start)
       IN txn' = [txn EXCEPT ![c] =
              IF r.num_rows = -1
              THEN Returned(run, "Err", "Failed to log database migration")
              ELSE [run EXCEPT !.changes = Changes(database, r.db, None),
                               !.pc = "update"]]
    /\ UNCHANGED <<config, database, backend, store, vss_db, req, resp, prev, pager, lister>>

\* tx.execute(UPDATE_VERSION_STMT, migrations.len()) and its assert.
MigrateUpdate(c) ==
    /\ txn[c].pc = "update"
    /\ ~UpdateWaits(c)
    /\ LET run == txn[c]
           r == UpdateVersion(Merge(database, run.changes), Len(run.migrations))
       IN txn' = [txn EXCEPT ![c] =
              IF r.num_rows = -1
              THEN Returned(run, "Err", "Failed to update the version of the schema")
              ELSE IF r.num_rows # 1
              THEN Returned(run, "panic",
                       "UPDATE_VERSION_STMT should only update the unique row in the version table")
              ELSE [run EXCEPT !.changes.set_version = Some(Len(run.migrations)),
                               !.pc = "commit"]]
    /\ UNCHANGED <<config, database, backend, store, vss_db, req, resp, prev, pager, lister>>

\* tx.commit() and Ok((migration_start, migrations.len())).
MigrateCommit(c) ==
    /\ txn[c].pc = "commit"
    /\ database' = Merge(database, txn[c].changes)
    /\ txn' = [txn EXCEPT ![c] = Returned(txn[c], "Ok", "")]
    /\ UNCHANGED <<config, backend, store, vss_db, req, resp, prev, pager, lister>>

\* Both servers have returned; two servers are started again.
MigrateRestart ==
    /\ \A c \in Connections : txn[c].pc = "done"
    /\ txn' = IdleTxns
    /\ prev' = database
    /\ UNCHANGED <<config, database, backend, store, vss_db, req, resp, pager, lister>>

NextMigrateRace ==
    \/ \E c \in Connections :
          \/ MigrateBegin(c)
          \/ MigrateExecute(c)
          \/ MigrateLog(c)
          \/ MigrateUpdate(c)
          \/ MigrateCommit(c)
    \/ MigrateRestart

SpecMigrateRace == InitMigrateRace /\ [][NextMigrateRace]_vars

\* C32: a run that finds a stored version above the length of its list
\* panics with "We do not allow downgrades" before it executes a statement
\* and leaves the database as it was, and no step of any run lowers the
\* stored version.
C32_NoDowngrade ==
    [][/\ \A c \in Connections :
             (txn[c] = IdleTxn /\ txn'[c] # IdleTxn
                /\ SchemaVersion(database) > Len(txn'[c].migrations)) =>
                 /\ txn'[c].pc = "done"
                 /\ txn'[c].status = "panic"
                 /\ txn'[c].message = "We do not allow downgrades"
                 /\ database' = database
       /\ SchemaVersion(database') >= SchemaVersion(database)]_vars

\* C37: when two runs with the same list, not shorter than the stored
\* version, that started on the same database have both returned, every
\* statement of the list has been executed once, the upgrades log has gained
\* one entry if the list was longer than the stored version, and the stored
\* version is the length of the list.
C37_ConcurrentRunsSerialize ==
    (/\ \A c \in Connections : txn[c].pc = "done"
     /\ txn[1].migrations = txn[2].migrations
     /\ SchemaVersion(prev) <= Len(txn[1].migrations)) =>
        /\ database.executed = InOrder(Len(txn[1].migrations))
        /\ SchemaVersion(database) = Len(txn[1].migrations)
        /\ Len(database.upgrades) =
               Len(prev.upgrades)
                 + (IF SchemaVersion(prev) < Len(txn[1].migrations) THEN 1 ELSE 0)

---------------------------------------------------------------------------
(* Authorizers (auth-impls): SignatureValidatingAuthorizer and              *)
(* JWTAuthorizer.  Keys and signatures are symbolic: a signature names the  *)
(* key that made it and the time string it signs.                           *)

\* u64, scaled: the largest value of the type.
U64_MAX == 1048575

\* The largest number of seconds SystemTime::now() can lie after the epoch
\* (i64::MAX against u64::MAX).
SystemTimeMax == (U64_MAX - 1) \div 2

\* 60 * 60 * 24
SecondsPerDay == 60 * 60 * 24

\* u64 arithmetic of a build without overflow checks.
wrapping_sub(a, b) == (a - b + U64_MAX + 1) % (U64_MAX + 1)
wrapping_add(a, b) == (a + b) % (U64_MAX + 1)

\* str::parse::<u64>.
ParseU64(s) ==
    IF IsSome(ParseUsize(s)) /\ Unwrap(ParseUsize(s)) <= U64_MAX
    THEN ParseUsize(s)
    ELSE None

\* Header names as clients write them and as the authorizers look them up.
AuthorizationKey == <<65, 117, 116, 104, 111, 114, 105, 122, 97, 116, 105, 111, 110>>
LowercaseAuthorizationKey == <<97, 117, 116, 104, 111, 114, 105, 122, 97, 116, 105, 111, 110>>
UppercaseAuthorizationKey == <<65, 85, 84, 72, 79, 82, 73, 90, 65, 84, 73, 79, 78>>

\* HeaderName converted to a string: ASCII letters in lowercase.
HeaderNameToString(name) ==
    [i \in 1..Len(name) |-> IF name[i] \in 65..90 THEN name[i] + 32 ELSE name[i]]

\* HashMap<String, String>::get.
HashMapGet(map, key) == IF key \in DOMAIN map THEN Some(map[key]) ELSE None

\* The headers_map handle_request collects from the request's headers.
HeadersMap(headers) ==
    [key \in {HeaderNameToString(h.name) : h \in headers} |->
        (CHOOSE h \in headers : HeaderNameToString(h.name) = key).value]

Err(message) == [ok |-> FALSE, panic |-> FALSE, error |-> VssError(AuthError, message)]
AuthResponse(user_token) == [ok |-> TRUE, panic |-> FALSE, user_token |-> user_token]
Panicked(message) == [ok |-> FALSE, panic |-> TRUE, message |-> message]

\* The length of a proof-of-possession header: 33 * 2 hex digits of public
\* key, 64 * 2 of signature, then the time; a cut header ends before that.
HeaderLen(auth_header) ==
    IF auth_header.cut THEN (33 + 64) * 2 - 1
    ELSE (33 + 64) * 2 + Len(auth_header.time_strng)

\* The checks of SignatureValidatingAuthorizer::verify that follow the
\* time window.
VerifySignature(auth_header) ==
    IF ~auth_header.pubkey_hex.on_curve
    THEN Err("Authorization header has bad pubkey")
    ELSE IF ~auth_header.signat_hex.compact
    THEN Err("Authorization header has bad sig")
    ELSE IF auth_header.signat_hex.signer # auth_header.pubkey_hex.key
            \/ auth_header.signat_hex.signed # auth_header.time_strng
    THEN Err("Signature was invalid")
    ELSE AuthResponse(auth_header.pubkey_hex)

\* SignatureValidatingAuthorizer::verify at server time now (seconds since
\* the epoch).  now.as_secs() - 60 * 60 * 24 and now.as_secs() + 60 * 60 * 24
\* are u64 operations: out of range they panic in a build with overflow
\* checks and wrap in one without.
signature_verify(headers_map, now, overflow_checks) ==
    LET found == HashMapGet(headers_map, AuthorizationKey)
    IN IF ~IsSome(found) THEN Err("Authorization header not found.")
       ELSE LET auth_header == Unwrap(found)
            IN IF auth_header.scheme # "signature" \/ HeaderLen(auth_header) <= (33 + 64) * 2
               THEN Err("Authorization header has wrong length")
               ELSE IF ~auth_header.pubkey_hex.hex \/ ~auth_header.signat_hex.hex
               THEN Err("Authorization header is not hex")
               ELSE IF ~IsSome(ParseU64(auth_header.time_strng))
               THEN Err("Time is not an integer")
               ELSE IF overflow_checks /\ now < SecondsPerDay
               THEN Panicked("attempt to subtract with overflow")
               ELSE IF wrapping_sub(now, SecondsPerDay)
                          > Unwrap(ParseU64(auth_header.time_strng))
               THEN Err("Time is too far from now")
               ELSE IF overflow_checks /\ now + SecondsPerDay > U64_MAX
               THEN Panicked("attempt to add with overflow")
               ELSE IF wrapping_add(now, SecondsPerDay)
                          < Unwrap(ParseU64(auth_header.time_strng))
               THEN Err("Time is too far from now")
               ELSE VerifySignature(auth_header)

\* JWTAuthorizer::verify: the Bearer prefix, then jsonwebtoken::decode with
\* Validation::new(Algorithm::RS256) against the issuer key.
jwt_verify(headers_map) ==
    LET found == HashMapGet(headers_map, AuthorizationKey)
    IN IF ~IsSome(found) THEN Err("Authorization header not found.")
       ELSE LET auth_header == Unwrap(found)
            IN IF auth_header.scheme # "Bearer" THEN Err("Invalid token format.")
               ELSE IF auth_header.signer # "issuer" \/ auth_header.expired
               THEN Err("Authentication failure.")
               ELSE AuthResponse(auth_header.sub)

\* Proof-of-possession headers: the public key, the signature, the time.
PublicKeys ==
    {[hex |-> TRUE, on_curve |-> TRUE, key |-> "a"],
     [hex |-> TRUE, on_curve |-> FALSE, key |-> "none"],
     [hex |-> FALSE, on_curve |-> FALSE, key |-> "none"]}

Signatures(time_strng) ==
    {[hex |-> TRUE, compact |-> TRUE, signer |-> "a", signed |-> time_strng],
     [hex |-> TRUE, compact |-> TRUE, signer |-> "b", signed |-> time_strng],
     [hex |-> TRUE, compact |-> TRUE, signer |-> "a", signed |-> UsizeToString(0)],
     [hex |-> FALSE, compact |-> FALSE, signer |-> "none", signed |-> EmptyStr]}

SignatureHeader(pubkey_hex, signat_hex, time_strng, cut) ==
    [scheme |-> "signature", pubkey_hex |-> pubkey_hex, signat_hex |-> signat_hex,
     time_strng |-> time_strng, cut |-> cut]

\* Server times: the epoch, either side of one day, later days, the end of
\* the clock's range.
Nows ==
    {0, 1, SecondsPerDay - 1, SecondsPerDay, SecondsPerDay + 1, 2 * SecondsPerDay,
     3 * SecondsPerDay, SystemTimeMax - 1, SystemTimeMax}

\* Signing times around a server time, and the ends of u64.
TimesAround(now) ==
    ({now - SecondsPerDay - 1, now - SecondsPerDay, now - 1, now, now + 1,
      now + SecondsPerDay, now + SecondsPerDay + 1} \cap 0..U64_MAX)
      \cup {0, U64_MAX}

\* Time fields: the decimal times, the empty field, a field that is no
\* number, a number above u64::MAX.
TimeStrings(now) ==
    {UsizeToString(t) : t \in TimesAround(now)}
      \cup {EmptyStr, <<120>>, UsizeToString(U64_MAX + 1)}

SignatureHeaders(now) ==
    UNION {{SignatureHeader(k, g, t, cut) :
               k \in PublicKeys, g \in Signatures(t), cut \in BOOLEAN} :
           t \in TimeStrings(now)}

\* Bearer tokens: signed by the issuer key or another, expired or not.
BearerHeaders ==
    {[scheme |-> "Bearer", signer |-> g, expired |-> x, sub |-> "user"] :
        g \in {"issuer", "other"}, x \in BOOLEAN}
      \cup {[scheme |-> "Basic", signer |-> "issuer", expired |-> FALSE, sub |-> "user"]}

InitAuth ==
    /\ config = VssServiceConfig_default
    /\ database = MigratedDatabase
    /\ backend \in {InMemory, Postgres}
    /\ store = EmptyMap
    /\ vss_db = EmptyMap
    /\ req = NoRequest
    /\ resp = NoResponse
    /\ prev = EmptyMap
    /\ pager = IdlePager
    /\ txn = IdleTxns
    /\ lister = IdleLister

\* A call of SignatureValidatingAuthorizer::verify with a headers_map that
\* holds the header under the key "Authorization", as in test_sig.
SignatureVerify ==
    \E now \in Nows, overflow_checks \in BOOLEAN :
        \E auth_header \in SignatureHeaders(now) :
            /\ req = NoRequest
            /\ req' = [op |-> "verify", now |-> now, overflow_checks |-> overflow_checks,
                       auth_header |-> auth_header]
            /\ resp' = signature_verify([k \in {AuthorizationKey} |-> auth_header],
                                        now, overflow_checks)
            /\ UNCHANGED <<config, database, backend, store, vss_db, prev, pager, txn, lister>>

NextSignature == SignatureVerify \/ Respond

SpecSignature == InitAuth /\ [][NextSignature]_vars

\* The last call's header carries a public key and a signature that are
\* valid for its time field, a u64.
ValidForTime ==
    /\ ~req.auth_header.cut
    /\ IsSome(ParseU64(req.auth_header.time_strng))
    /\ req.auth_header.pubkey_hex.hex
    /\ req.auth_header.pubkey_hex.on_curve
    /\ req.auth_header.signat_hex.hex
    /\ req.auth_header.signat_hex.compact
    /\ req.auth_header.signat_hex.signer = req.auth_header.pubkey_hex.key
    /\ req.auth_header.signat_hex.signed = req.auth_header.time_strng

\* C33: verify never panics; for a header whose key and signature are valid
\* for its time t it returns the hex public key as user_token when
\* now - 86400 <= t <= now + 86400 and AuthError otherwise, for every u64 t
\* and every server time; an empty time field or a field that is not hex is
\* answered with AuthError.
C33_SignatureTimeWindow ==
    req # NoRequest =>
        /\ ~resp.panic
        /\ ValidForTime =>
               LET t == Unwrap(ParseU64(req.auth_header.time_strng))
               IN IF req.now - SecondsPerDay <= t /\ t <= req.now + SecondsPerDay
                  THEN resp = AuthResponse(req.auth_header.pubkey_hex)
                  ELSE ~resp.ok /\ resp.error.kind = AuthError
        /\ (req.auth_header.time_strng = EmptyStr
              \/ ~req.auth_header.pubkey_hex.hex
              \/ ~req.auth_header.signat_hex.hex) =>
               ~resp.ok /\ resp.error.kind = AuthError

---------------------------------------------------------------------------
(* Authentication of a request that reaches handle_request: the headers    *)
(* are collected into headers_map and handed to the configured authorizer.  *)

JWTAuthorizer == "JWTAuthorizer"
SignatureValidatingAuthorizer == "SignatureValidatingAuthorizer"

\* The server time of the requests below.
RouterNow == 2 * SecondsPerDay

\* The header names a client may write; HTTP header names are
\* case-insensitive.
AuthorizationNames ==
    {AuthorizationKey, LowercaseAuthorizationKey, UppercaseAuthorizationKey}

\* The request's headers: none, or one Authorization header.
RequestHeaders ==
    {{}} \cup {{[name |-> n, value |-> v]} :
                  n \in AuthorizationNames,
                  v \in SignatureHeaders(RouterNow) \cup BearerHeaders}

\* authorizer.verify(&headers_map) of the configured authorizer.
authorizer_verify(authorizer, headers_map, now, overflow_checks) ==
    IF authorizer = JWTAuthorizer THEN jwt_verify(headers_map)
    ELSE signature_verify(headers_map, now, overflow_checks)

\* handle_request up to the user_token: the headers_map, verify, and the
\* error response of a failed verify.
Authenticate ==
    \E authorizer \in {JWTAuthorizer, SignatureValidatingAuthorizer},
       headers \in RequestHeaders, overflow_checks \in BOOLEAN :
        LET r == authorizer_verify(authorizer, HeadersMap(headers), RouterNow,
                                   overflow_checks)
        IN /\ req = NoRequest
           /\ req' = [op |-> "authenticate", authorizer |-> authorizer,
                      headers |-> headers, now |-> RouterNow]
           /\ resp' = IF r.ok THEN [status |-> 200, user_token |-> Some(r.user_token)]
                      ELSE [status |-> build_error_response(r.error).status,
                            user_token |-> None]
           /\ UNCHANGED <<config, database, backend, store, vss_db, prev, pager, txn, lister>>

NextAuth == Authenticate \/ Respond

SpecAuth == InitAuth /\ [][NextAuth]_vars

\* The credential of the last request and the user token it stands for:
\* a Bearer token signed by the issuer key and not expired, or a proof of
\* possession whose key and signature are valid for a time within a day.
Credential ==
    IF req.headers = {} THEN None
    ELSE LET v == (CHOOSE h \in req.headers : TRUE).value
             by_name == [k \in {AuthorizationKey} |-> v]
             r == authorizer_verify(req.authorizer, by_name, req.now, FALSE)
         IN IF r.ok THEN Some(r.user_token) ELSE None

\* C35: a request whose Authorization header carries a valid credential is
\* authenticated under the credential's user token, whatever the case of
\* the header's name; a request is answered 401 only when the credential is
\* missing, malformed or invalid.
C35_HeaderMapFindsCredential ==
    req # NoRequest =>
        /\ IsSome(Credential) => (resp.status = 200 /\ resp.user_token = Credential)
        /\ resp.status = 401 => ~IsSome(Credential)

---------------------------------------------------------------------------
(* C34 - page_size = 0.                                                    *)

\* C34: a first-page List with page_size = 0 gets the response of the same
\* request without page_size; when that response holds a key, so does the
\* response to page_size = 0, with a non-empty next_page_token.
C34_ZeroPageSizeIsUnset ==
    (ListOk /\ req.request.page_size = Some(0) /\ req.request.page_token = None) =>
        /\ resp = ListResult(req.user_token, [req.request EXCEPT !.page_size = None])
        /\ Len(ListResult(req.user_token,
                          [req.request EXCEPT !.page_size = None]).key_versions) >= 1 =>
               /\ Len(resp.key_versions) >= 1
               /\ resp.next_page_token # Some(EmptyStr)

---------------------------------------------------------------------------
(* The transactions of PostgresBackend::put and PostgresBackend::delete:   *)
(* the connection taken from the pool, the transaction opened on it, and    *)
(* every way the handler's future ends - it returns, a statement's error    *)
(* leaves through `?`, or hyper drops the future when the client goes away. *)
(* The locals are dropped at each exit: a tokio_postgres Transaction that   *)
(* was neither committed nor rolled back sends ROLLBACK when dropped, and a *)
(* bb8 PooledConnection goes back to its pool.                              *)

\* Drop of the Transaction: a transaction still open is rolled back.
LeakTransaction(t) == t

DropTransaction(t) ==
    IF t.transaction = "open"
    THEN [t EXCEPT !.transaction = "rolled back", !.writes = << >>]
    ELSE t

\* Drop of the PooledConnection.
DropConnection(t) == [t EXCEPT !.conn = "pooled"]

\* The future ends with `status`: transaction, then conn, are dropped.
Exit(t, status) ==
    [DropConnection(DropTransaction(t)) EXCEPT !.pc = "done", !.status = status]

\* put and delete up to conn.transaction().
BeginTransaction(op, user_token, request, stmts) ==
    [pc |-> "running", op |-> op, user_token |-> user_token, request |-> request,
     stmts |-> stmts, batch_results |-> << >>, writes |-> << >>,
     transaction |-> "open", conn |-> "checked out", status |-> "none"]

\* The Puts in flight: an insert of one key, an insert of two keys, a
\* conditional update of both keys in the other order.
TxnPutRequests(c) ==
    {[store_id |-> sid, transaction_items |-> items, delete_items |-> << >>,
      global_version |-> None] :
        sid \in StoreIds,
        items \in {<<KeyValue(KeyA, ConnValue(c), 0)>>,
                   <<KeyValue(KeyA, ConnValue(c), 0), KeyValue(KeyB, ConnValue(c), 0)>>,
                   <<KeyValue(KeyB, ConnValue(c), 1), KeyValue(KeyA, ConnValue(c), 1)>>}}

\* The standalone Deletes in flight.
TxnDeleteRequests ==
    {[store_id |-> sid, key_value |-> Some(KeyValue(KeyA, EmptyStr, ver))] :
        sid \in StoreIds, ver \in {-1, 1}}

InitTxn ==
    /\ config = VssServiceConfig_default
    /\ database = MigratedDatabase
    /\ backend = Postgres
    /\ store = EmptyMap
    /\ vss_db = EmptyMap
    /\ req = NoRequest
    /\ resp = NoResponse
    /\ prev = EmptyMap
    /\ pager = IdlePager
    /\ txn = IdleTxns
    /\ lister = IdleLister

\* PostgresBackend::put: pool.get() and conn.transaction().
TxnBeginPut ==
    \E c \in Connections, u \in UserTokens :
        \E r \in TxnPutRequests(c) :
            /\ txn[c] = IdleTxn
            /\ txn' = [txn EXCEPT ![c] =
                          BeginTransaction("put", u, r, PutStatements(u, r))]
            /\ UNCHANGED <<config, database, backend, store, vss_db, req, resp, prev,
                           pager, lister>>

\* PostgresBackend::delete: pool.get() and conn.transaction().
TxnBeginDelete ==
    \E c \in Connections, u \in UserTokens, r \in TxnDeleteRequests :
        /\ txn[c] = IdleTxn
        /\ txn' = [txn EXCEPT ![c] =
                      BeginTransaction("delete", u, r,
                          <<Statement("delete",
                                build_vss_record(u, r.store_id, Unwrap(r.key_value)))>>)]
        /\ UNCHANGED <<config, database, backend, store, vss_db, req, resp, prev,
                       pager, lister>>

\* One execute_put_object_query or execute_delete_object_query.
TxnExecute == \E c \in Connections : PgExecute(c)

\* The statement returns an error (a deadlock, a lost connection), which
\* leaves the function through `?`.
TxnStatementError ==
    \E c \in Connections :
        /\ Running(c)
        /\ txn' = [txn EXCEPT ![c] = Exit(txn[c], InternalServerError)]
        /\ UNCHANGED <<config, database, backend, store, vss_db, req, resp, prev,
                       pager, lister>>

\* Some statement affected no row: transaction.rollback(), then Conflict
\* from put and Ok from delete.
TxnRollback ==
    \E c \in Connections :
        /\ txn[c].pc = "running"
        /\ txn[c].stmts = << >>
        /\ \E i \in 1..Len(txn[c].batch_results) : txn[c].batch_results[i] = 0
        /\ txn' = [txn EXCEPT ![c] =
                      Exit([txn[c] EXCEPT !.transaction = "rolled back",
                                          !.writes = << >>],
                           IF txn[c].op = "put" THEN ConflictError ELSE OkStatus)]
        /\ UNCHANGED <<config, database, backend, store, vss_db, req, resp, prev,
                       pager, lister>>

\* Every statement affected a row: transaction.commit(), then Ok.
TxnCommit ==
    \E c \in Connections :
        /\ txn[c].pc = "running"
        /\ txn[c].stmts = << >>
        /\ \A i \in 1..Len(txn[c].batch_results) : txn[c].batch_results[i] # 0
        /\ vss_db' = View(c)
        /\ txn' = [txn EXCEPT ![c] =
                      Exit([txn[c] EXCEPT !.transaction = "committed"], OkStatus)]
        /\ UNCHANGED <<config, database, backend, store, req, resp, prev, pager, lister>>

\* The handler's future is dropped at an await point between
\* conn.transaction() and the commit or rollback.
TxnCancel ==
    \E c \in Connections :
        /\ txn[c].pc = "running"
        /\ txn' = [txn EXCEPT ![c] = Exit(txn[c], "cancelled")]
        /\ UNCHANGED <<config, database, backend, store, vss_db, req, resp, prev,
                       pager, lister>>

\* Both requests are over; the next two arrive.
TxnRestart ==
    /\ \A c \in Connections : txn[c].pc = "done"
    /\ txn' = IdleTxns
    /\ prev' = vss_db
    /\ UNCHANGED <<config, database, backend, store, vss_db, req, resp, pager, lister>>

NextTxn ==
    \/ TxnBeginPut
    \/ TxnBeginDelete
    \/ TxnExecute
    \/ TxnStatementError
    \/ TxnRollback
    \/ TxnCommit
    \/ TxnCancel
    \/ TxnRestart

SpecTxn == InitTxn /\ [][NextTxn]_vars

\* A request that has ended has no open transaction and no connection.
TxnEnded(t) ==
    t.pc = "done" =>
        /\ t.transaction \in {"committed", "rolled back"}
        /\ t.conn = "pooled"

---------------------------------------------------------------------------
(* C39 - what a request leaves alone.                                      *)

\* The keys a request may change: the keys of a Put's transaction_items and
\* delete_items, the sentinel when the Put has a global_version, the key of
\* a standalone Delete; none for Get and List.
NamedKeys ==
    IF req.op = "put"
    THEN {req.request.transaction_items[i].key :
              i \in 1..Len(req.request.transaction_items)}
           \cup {req.request.delete_items[i].key :
                    i \in 1..Len(req.request.delete_items)}
           \cup (IF IsSome(req.request.global_version)
                 THEN {GLOBAL_VERSION_KEY} ELSE {})
    ELSE IF req.op = "delete" /\ IsSome(req.request.key_value)
    THEN {Unwrap(req.request.key_value).key}
    ELSE {}

\* C39: Get, List and every request answered with an error leave the store
\* as it was; a successful Put or Delete leaves the record of every key it
\* does not name, and of every key of another (user_token, store_id), as it
\* was.
C39_FrameConditions ==
    req # NoRequest =>
        /\ (req.op \in {"get", "list"} \/ resp.status # OkStatus) => Records = prev
        /\ \A pair \in NsPairs, k \in NsKeys \cup {GLOBAL_VERSION_KEY} :
               (pair # <<req.user_token, req.request.store_id>> \/ k \notin NamedKeys) =>
                   GetResult(Records, pair[1], pair[2], k)
                     = GetResult(prev, pair[1], pair[2], k)

---------------------------------------------------------------------------
(* C40 - a client that keeps following next_page_token, for every          *)
(* page_size of the request.                                                *)

\* The first List, with any page_size an i32 can hold.
FollowFirstPage ==
    /\ pager = IdlePager
    /\ \E u \in UserTokens, sid \in StoreIds, kp \in KeyPrefixes, ps \in ListPageSizes :
           pager' = AfterPage(u, [store_id |-> sid, key_prefix |-> kp,
                                  page_size |-> ps, page_token |-> None], << >>)
    /\ UNCHANGED <<config, database, backend, store, vss_db, req, resp, prev, txn, lister>>

NextFollow == PagingPut \/ FollowFirstPage \/ NextPage \/ EndListing

\* The client sends the next List as long as it holds a non-empty token.
SpecFollow == Init /\ [][NextFollow]_vars /\ WF_vars(NextPage)

\* The token of a listing as the backend orders it: the offset of the
\* in-memory backend, the last key of the Postgres backend.
TokenBefore(old, new) ==
    IF backend = InMemory
    THEN UnwrapOr(ParseUsize(old), 0) < UnwrapOr(ParseUsize(new), 0)
    ELSE StrLess(old, new)

\* C40: on a store left alone, no List of a listing fails, a listing that
\* holds a non-empty token is eventually handed the empty one, and a page
\* that returns keys moves the token strictly forward.
C40_PaginationTerminates ==
    /\ [](pager.state # "failed")
    /\ (pager.state = "paging") ~> (pager.state = "done")
    /\ [][(pager.state = "paging" /\ pager'.state = "paging") =>
             TokenBefore(UnwrapOr(pager.request.page_token, EmptyStr),
                         UnwrapOr(pager'.request.page_token, EmptyStr))]_vars

=============================================================================
